---- MODULE Spec2Model ----
(***************************************************************************)
(* A model of capibara-core: the engine's run pipeline (engine.py), the    *)
(* script generator (script_generator.py), the provider pool               *)
(* (fallback_manager.py), the content-addressed cache (cache_manager.py)   *)
(* and the sandbox runner (container_runner.py).                           *)
(*                                                                         *)
(* The engine runs as asyncio coroutines.  A coroutine gives up control    *)
(* only at an await that reaches the event loop; in this code base these   *)
(* are the provider calls health_check and generate_code (network I/O).    *)
(* The cache and the docker SDK are called synchronously.  Every action of *)
(* the engine therefore runs from one such suspension point to the next.   *)
(***************************************************************************)
EXTENDS Integers, Sequences, FiniteSets, TLC

(***************************************************************************)
(* Bounds of the model.                                                    *)
(***************************************************************************)
NumRuns == 2
MaxTicks == 1
MaxClears == 1

(***************************************************************************)
(* Program constants.                                                      *)
(***************************************************************************)
DefaultTTL == 3600
ShortTTL == 0

Runs == 1 .. NumRuns

\* Python's None
None == [none |-> TRUE]

\* A Python dictionary is a function whose domain is the set of its keys.
Put(d, k, v) == [x \in DOMAIN d \cup {k} |-> IF x = k THEN v ELSE d[x]]
Del(d, k) == [x \in DOMAIN d \ {k} |-> d[x]]
Empty == [x \in {} |-> 0]

\* A value of context["inputs"]: its Python type and its text.  NumericText
\* are the texts that float() accepts.
PyValue(py, text) == [py |-> py, text |-> text]
NumericText == {"1", "2", "5", "7", "99", "100"}

InputLists ==
    {<<PyValue("int", "1"), PyValue("int", "2")>>,
     <<PyValue("int", "99"), PyValue("int", "100")>>,
     <<PyValue("str", "5"), PyValue("str", "7")>>,
     <<PyValue("str", "a"), PyValue("str", "b")>>,
     <<PyValue("bool", "True"), PyValue("bool", "False")>>,
     <<PyValue("int", "1")>>}

\* request.context or {} (engine.py line 52), and a context with inputs
NoContext == Empty
Contexts == {NoContext} \cup {Put(Empty, "inputs", l) : l \in InputLists}

NoProvider == "none"
NoReq == [prompt |-> "", context |-> NoContext, llm_provider |-> NoProvider,
          cache_ttl |-> DefaultTTL, execute |-> FALSE]
NoResponse == [script_id |-> <<>>]
NoError == [type |-> "none"]
NoResult == [ran |-> FALSE]

\* The providers the FallbackManager was constructed with, in the order of
\* the list given to the constructor (the insertion order of self.providers).
ProviderOrder == <<"A", "B">>
Providers == {ProviderOrder[i] : i \in DOMAIN ProviderOrder}

Prompts == {"p1", "p2"}
\* RunRequest.cache_ttl (requests.py line 15): the default and a short one
RequestTTLs == {DefaultTTL, ShortTTL}

RunRequest ==
    [prompt : Prompts, context : Contexts, llm_provider : Providers \cup {NoProvider},
     cache_ttl : RequestTTLs, execute : BOOLEAN]

\* What a provider's generate_code may return, as far as the validator and the
\* scanner can tell the texts apart.
CodeBodies == {"clean", "warn", "unsafe"}

VARIABLES
    \* one run_script coroutine per slot
    pc, req, gp, provider, resp, err,
    \* the audit events each run has emitted, in the order of emission
    audit,
    \* history: the steps of run_script each run has taken, in order
    steps,
    \* CacheManager
    files, metadata, stats,
    \* ScriptGenerator
    last_provider_used,
    \* FallbackManager and the providers' configuration
    enabled, priority, health_status, provider_stats,
    \* the environment: the providers' real health and the clock
    healthy, now, ticks, clears,
    \* the environment: the requests that clients send in this behaviour
    offered,
    \* history: the run whose store wrote the current file of a fingerprint (0:
    \* none), and for each run the run whose unexpired artifact was in the cache
    \* when it looked its fingerprint up (0: none)
    writer, after,
    \* history: no provider's health has changed since the get_provider call of
    \* this slot began
    steady,
    \* ContainerRunner: one execute call at a time, and what it leaves behind
    rpc, rlang, workspace, container, container_id, result, execs, leakedDirs,
    leakedContainers,
    \* GroqProvider._make_request: one call at a time, its loop and what the
    \* remote side answered
    qpc, max_retries, attempt, outcomes, waited, slept, qresult, requests,
    \* CacheManager used on its own: the index file metadata.json, the
    \* store_script call in progress, the last completed call and its result,
    \* and the number of calls made
    metadata_file, storing, last, cops,
    \* history: per fingerprint the dictionary given to the last store_script
    \* call that returned normally and the time of that call, while the file
    \* it wrote is still there as written
    stored,
    \* ASTScanner: the last scan call and its result
    scanned,
    \* PolicyManager: the registered policies, the default policy, and the
    \* last get_policy call and its result
    policies, default_policy, fetched

runVars == <<pc, req, gp, provider, resp, err, audit, steps>>
cacheVars == <<files, metadata, stats>>
poolVars == <<enabled, priority, health_status, provider_stats>>
envVars == <<healthy, now, ticks, clears, offered>>
histVars == <<writer, after, steady>>
runnerVars == <<rpc, rlang, workspace, container, container_id, result, execs, leakedDirs,
                leakedContainers>>
retryVars == <<qpc, max_retries, attempt, outcomes, waited, slept, qresult, requests>>
storeVars == <<metadata_file, storing, last, cops, stored>>
securityVars == <<scanned, policies, default_policy, fetched>>
engineVars == <<runVars, cacheVars, last_provider_used, poolVars, envVars, histVars>>
vars == <<engineVars, runnerVars, retryVars, storeVars, securityVars>>

(***************************************************************************)
(* utils/fingerprinting.py: the digest of the canonical form of (prompt,   *)
(* language, context, policy).  llm_provider, execute and cache_ttl are    *)
(* not part of it.  Distinct canonical forms give distinct digests.        *)
(***************************************************************************)
\* _normalize_context lines 43-57: the type recorded for one input.  A bool
\* is an int to isinstance, so the number branch takes it.
input_type(val) ==
    IF val.py = "str" THEN (IF val.text \in NumericText THEN "number" ELSE "string")
    ELSE IF val.py \in {"int", "float", "bool"} THEN "number"
    ELSE "string"

\* A normalisation that keeps the context as it is.
normalize_context_verbatim(context) == context

\* _normalize_context (lines 32-71): inputs are replaced by their number and
\* the sorted set of their types; an empty inputs list leaves no entry.
normalize_context(context) ==
    [key \in {k \in DOMAIN context : k = "inputs" => Len(context[k]) > 0} |->
        IF key = "inputs"
        THEN [count |-> Len(context[key]),
              types |-> {input_type(context[key][i]) : i \in DOMAIN context[key]}]
        ELSE context[key]]

generate_fingerprint(q) == <<"sha256", q.prompt, normalize_context(q.context)>>

Fingerprints == {generate_fingerprint(q) : q \in RunRequest}

(***************************************************************************)
(* engine.py _generate_script_id: the clock second and the first 8 hex     *)
(* digits of the md5 of the empty input, which is the same on every call.  *)
(***************************************************************************)
generate_script_id(t) == <<"script", t, "d41d8cd9">>

(***************************************************************************)
(* ast_scanner.py scan, as the engine sees it: a list of violations and    *)
(* passed, true when no violation has severity error.                      *)
(***************************************************************************)
Violations(code) ==
    CASE code = "clean" -> {}
      [] code = "warn" -> {[rule_name |-> "policy_rule", severity |-> "warning"]}
      [] OTHER -> {[rule_name |-> "dangerous_import", severity |-> "error"],
                   [rule_name |-> "policy_rule", severity |-> "warning"]}

scan(code) ==
    [violations |-> Violations(code),
     passed |-> \A v \in Violations(code) : v.severity # "error"]

(***************************************************************************)
(* fallback_manager.py get_provider, cut at its awaits of health_check.    *)
(* A suspended call is [stage, avail, idx]: it waits for the health check  *)
(* of avail[idx], either of the preferred provider or inside the loop.     *)
(***************************************************************************)
Pos(p) == CHOOSE i \in DOMAIN ProviderOrder : ProviderOrder[i] = p

\* list.sort(key=priority) is stable: ties keep the insertion order.
Before(p, q) ==
    \/ priority[p] < priority[q]
    \/ priority[p] = priority[q] /\ Pos(p) < Pos(q)

SortByPriority(S) ==
    CHOOSE s \in [1 .. Cardinality(S) -> S] :
        \A i, j \in 1 .. Cardinality(S) : i < j => Before(s[i], s[j])

\* lines 37-40: the enabled providers whose recorded health_status is true
available_providers(hs) ==
    SortByPriority({p \in Providers : enabled[p] /\ hs[p]})

GpIdle ==
    [kind |-> "idle", preferred |-> NoProvider, stage |-> "", avail |-> <<>>, idx |-> 0,
     provider |-> NoProvider]

\* lines 36-49: build the list, raise when it is empty, else probe its head
EnterLoop(g, hs) ==
    IF {p \in Providers : enabled[p] /\ hs[p]} = {}
    THEN [g EXCEPT !.kind = "raise", !.stage = "loop", !.avail = <<>>, !.idx = 0]
    ELSE [g EXCEPT !.kind = "probe", !.stage = "loop",
                   !.avail = available_providers(hs), !.idx = 1]

\* lines 27-32: up to the first await
get_provider_begin(preferred) ==
    IF preferred # NoProvider /\ preferred \in Providers /\ enabled[preferred]
    THEN [GpIdle EXCEPT !.kind = "probe", !.preferred = preferred, !.stage = "preferred",
                        !.avail = <<preferred>>, !.idx = 1]
    ELSE EnterLoop([GpIdle EXCEPT !.preferred = preferred], health_status)

ProbeTarget(g) == g.avail[g.idx]

\* lines 61-71: the probe's answer is recorded as the provider's health_status
is_provider_healthy(hs, p, answer) == [hs EXCEPT ![p] = answer]

\* from the return of a health check to the next await, return or raise;
\* hs is the health table with the probe's answer already recorded
get_provider_resume(g, hs) ==
    IF hs[ProbeTarget(g)]
    THEN [g EXCEPT !.kind = "return", !.provider = ProbeTarget(g), !.avail = <<>>, !.idx = 0]
    ELSE IF g.stage = "preferred"
         THEN EnterLoop(g, hs)
         ELSE IF g.idx < Len(g.avail)
              THEN [g EXCEPT !.idx = g.idx + 1]
              ELSE [g EXCEPT !.kind = "raise", !.avail = <<>>, !.idx = 0]

(***************************************************************************)
(* cache_manager.py.  files is the cache directory, one <fingerprint>.json *)
(* per key; metadata is the index self.metadata (metadata.json); both are  *)
(* dictionaries.                                                           *)
(***************************************************************************)
\* script_data.get("cache_ttl", 3600) (line 299); the engine's script_info has
\* no cache_ttl key
ttl_seconds(f) == IF "cache_ttl" \in DOMAIN f THEN f.cache_ttl ELSE DefaultTTL

\* An entry that expires once its age reaches the time to live.
is_expired_at_ttl(f, t) == t - f.cached_at >= ttl_seconds(f)

\* _is_expired (lines 296-301)
is_expired(f, t) == t - f.cached_at > ttl_seconds(f)

\* An eviction that leaves the index entry behind.
evict_meta_keep(meta, fp) == meta

\* _evict_script: unlink the file, drop the index entry, count the eviction
evict_files(fs, fp) == Del(fs, fp)
evict_meta(meta, fp) == Del(meta, fp)

\* len(json.dumps(script_data)) (line 103): the length of the JSON text of a
\* document, one unit for each of its keys
json_size(d) == Cardinality(DOMAIN d)

\* the size the index has recorded for a fingerprint (lines 246-249, 271-274)
size_of(meta, fp) == IF fp \in DOMAIN meta THEN meta[fp].size_bytes ELSE 0

RECURSIVE SumSizes(_, _)
SumSizes(meta, S) ==
    IF S = {} THEN 0
    ELSE LET fp == CHOOSE x \in S : TRUE
         IN  size_of(meta, fp) + SumSizes(meta, S \ {fp})

\* store_script line 112
store_stats(s, size) == [s EXCEPT !.total_size_bytes = @ + size]

\* _evict_script lines 271-277
evict_stats(s, meta, fp) ==
    [s EXCEPT !.total_size_bytes = @ - size_of(meta, fp), !.evictions = @ + 1]

\* clear_scripts lines 240-253, for the fingerprints in gone
clear_stats(s, meta, gone) ==
    [s EXCEPT !.total_size_bytes = @ - SumSizes(meta, gone \cap DOMAIN meta),
              !.evictions = @ + Cardinality(gone)]

\* _update_script_metadata (lines 283-294)
update_script_metadata(meta, fp, f, t) ==
    IF fp \in DOMAIN meta
    THEN [meta EXCEPT ![fp].last_accessed_at = t,
                      ![fp].access_count = IF "access_count" \in DOMAIN f
                                           THEN f.access_count ELSE 0]
    ELSE meta

\* increment_cache_hit (lines 120-134): the entry whose script_id key equals
\* the given id; store_script writes the index entries without that key.
MetaWithScriptId(meta, script_id) ==
    {fp \in DOMAIN meta :
        "script_id" \in DOMAIN meta[fp] /\ meta[fp].script_id = script_id}

increment_cache_hit(meta, script_id, t) ==
    IF MetaWithScriptId(meta, script_id) = {}
    THEN meta
    ELSE LET fp == CHOOSE x \in MetaWithScriptId(meta, script_id) : TRUE
         IN  [meta EXCEPT ![fp].access_count = @ + 1, ![fp].last_accessed_at = t]

NoStoredInfo ==
    [script_id |-> <<>>, prompt |-> "", code |-> "", fingerprint |-> <<>>,
     llm_provider |-> NoProvider]

\* store_script (lines 66-118): the file as written, and its index entry
stored_file(script_info, t) ==
    [script_id |-> script_info.script_id,
     prompt |-> script_info.prompt,
     code |-> script_info.code,
     fingerprint |-> script_info.fingerprint,
     llm_provider |-> script_info.llm_provider,
     cached_at |-> t,
     access_count |-> 0,
     cache_hit_count |-> 0]

stored_meta(t) ==
    [cached_at |-> t, last_accessed_at |-> t, access_count |-> 0,
     size_bytes |-> json_size(stored_file(NoStoredInfo, t))]

(***************************************************************************)
(* container_runner.py execute, as the engine sees it: it always returns   *)
(* an ExecutionResult (its own errors are caught and reported in it), and  *)
(* the engine passes it on without looking inside.                         *)
(***************************************************************************)
ExecutionResults == [ran : {TRUE}, success : BOOLEAN]

\* engine.py lines 108-109 and 141: hasattr(request, 'execute') and
\* request.execute; a request that asks for no execution gets None.
execute_ignored(q) == FALSE

execute_requested(q) == q.execute

(***************************************************************************)
(* engine.py _log_audit_event, _generate_event_id, _execute_script and     *)
(* _log_security_violations: an event is written to the log at once.       *)
(* script_executed and security_violation events carry no script_id.       *)
(***************************************************************************)
NoScriptId == <<>>

generate_event_id(t) == <<"event", t, "d41d8cd9">>

log_audit_event(log, event_type, script_id, t) ==
    Append(log, [event_id |-> generate_event_id(t), event_type |-> event_type,
                 script_id |-> script_id])

\* lines 107-110 and 140-142 with the last line of _execute_script
log_execution(log, q, t) ==
    IF execute_requested(q) THEN log_audit_event(log, "script_executed", NoScriptId, t)
    ELSE log

\* A logger that writes one event for the whole scan result.
log_security_violations_once(log, violations, t) ==
    log_audit_event(log, "security_violation", NoScriptId, t)

\* _log_security_violations: for each violation of the list, in order, one
\* event; the events carry no script_id
log_security_violations(log, violations, t) ==
    log \o [i \in 1 .. Cardinality(violations) |->
                [event_id |-> generate_event_id(t), event_type |-> "security_violation",
                 script_id |-> NoScriptId]]

(***************************************************************************)
(* engine.py run_script                                                    *)
(***************************************************************************)
ScriptGenerationError(cause) == [type |-> "ScriptGenerationError", cause |-> cause]

\* lines 62-70 and script_generator.py lines 34-38: the miss path up to the
\* first suspension of get_provider
BeginGeneration(r, q) ==
    LET g == get_provider_begin(q.llm_provider)
    IN  /\ gp' = [gp EXCEPT ![r] = g]
        /\ IF g.kind = "raise"
           THEN /\ pc' = [pc EXCEPT ![r] = "failed"]
                /\ err' = [err EXCEPT ![r] = ScriptGenerationError("NoAvailableProvidersError")]
           ELSE /\ pc' = [pc EXCEPT ![r] = "probing"]
                /\ err' = err
        /\ steps' = [steps EXCEPT ![r] = <<"probe", "process", "generate">>]
        /\ UNCHANGED <<provider, resp, audit, last_provider_used>>

\* _build_response_from_cache (lines 133-156)
RespondFromCache(r, q, f) ==
    /\ \E res \in (IF execute_requested(q) THEN ExecutionResults ELSE {NoResult}) :
        resp' = [resp EXCEPT ![r] =
                    [script_id |-> f.script_id,
                     code |-> f.code,
                     cached |-> TRUE,
                     cache_hit_count |-> f.cache_hit_count + 1,
                     llm_provider |-> f.llm_provider,
                     fingerprint |-> f.fingerprint,
                     execution_result |-> res]]
    /\ audit' = [audit EXCEPT ![r] = log_execution(@, q, now)]
    /\ steps' = [steps EXCEPT ![r] =
                    <<"probe">> \o (IF execute_requested(q) THEN <<"execute">> ELSE <<>>)
                        \o <<"respond">>]
    /\ pc' = [pc EXCEPT ![r] = "responded"]
    /\ UNCHANGED <<gp, provider, err, last_provider_used>>

\* run_script is called with request q: lines 44-60 on a hit, lines 44-70 and
\* the start of generate and get_provider on a miss.
Start(r, q) ==
    /\ pc[r] = "idle"
    /\ q \in offered
    /\ req' = [req EXCEPT ![r] = q]
    /\ LET fp == generate_fingerprint(q)
       IN  /\ after' = [after EXCEPT ![r] =
                          IF fp \in DOMAIN files /\ now - files[fp].cached_at <= DefaultTTL
                          THEN writer[fp] ELSE 0]
           /\ IF fp \notin DOMAIN files
              THEN \* get_script lines 36-39
                   /\ stats' = [stats EXCEPT !.misses = @ + 1]
                   /\ UNCHANGED <<files, metadata, writer>>
                   /\ BeginGeneration(r, q)
              ELSE IF is_expired(files[fp], now)
              THEN \* get_script lines 46-49
                   /\ files' = evict_files(files, fp)
                   /\ metadata' = evict_meta(metadata, fp)
                   /\ stats' = [evict_stats(stats, metadata, fp) EXCEPT !.misses = @ + 1]
                   /\ writer' = [writer EXCEPT ![fp] = 0]
                   /\ BeginGeneration(r, q)
              ELSE \* get_script lines 51-57, then the hit path of the engine
                   /\ stats' = [stats EXCEPT !.hits = @ + 1]
                   /\ metadata' = increment_cache_hit(
                                      update_script_metadata(metadata, fp, files[fp], now),
                                      files[fp].script_id, now)
                   /\ UNCHANGED <<files, writer>>
                   /\ RespondFromCache(r, q, files[fp])
    /\ UNCHANGED <<poolVars, envVars, steady>>
    /\ UNCHANGED <<runnerVars, retryVars, storeVars, securityVars>>

\* A health check of run r's get_provider returns: fallback_manager.py lines
\* 32-59 up to the next health check, and on a returned provider
\* script_generator.py lines 39-49 up to the await of generate_code.
Probe(r) ==
    /\ pc[r] = "probing"
    /\ LET p == ProbeTarget(gp[r])
           hs == is_provider_healthy(health_status, p, healthy[p])
           g == get_provider_resume(gp[r], hs)
       IN  /\ health_status' = hs
           /\ gp' = [gp EXCEPT ![r] = g]
           /\ CASE g.kind = "probe" ->
                    UNCHANGED <<pc, provider, err, last_provider_used>>
                [] g.kind = "raise" ->
                    /\ pc' = [pc EXCEPT ![r] = "failed"]
                    /\ err' = [err EXCEPT ![r] = ScriptGenerationError("NoAvailableProvidersError")]
                    /\ UNCHANGED <<provider, last_provider_used>>
                [] OTHER ->
                    /\ pc' = [pc EXCEPT ![r] = "generating"]
                    /\ provider' = [provider EXCEPT ![r] = g.provider]
                    /\ last_provider_used' = g.provider
                    /\ err' = err
    /\ UNCHANGED <<req, resp, audit, steps, cacheVars, enabled, priority, provider_stats,
                   envVars, histVars>>
    /\ UNCHANGED <<runnerVars, retryVars, storeVars, securityVars>>

\* The provider's generate_code raises, or _validate_generated_code refuses
\* its text: script_generator.py lines 68-73.
GenerateFails(r) ==
    /\ pc[r] = "generating"
    /\ pc' = [pc EXCEPT ![r] = "failed"]
    /\ err' = [err EXCEPT ![r] = ScriptGenerationError("LLMProviderError")]
    /\ UNCHANGED <<req, gp, provider, resp, audit, steps, cacheVars, last_provider_used,
                   poolVars, envVars, histVars>>
    /\ UNCHANGED <<runnerVars, retryVars, storeVars, securityVars>>

\* engine.py lines 86-102
ScriptInfo(r, code) ==
    [script_id |-> generate_script_id(now),
     prompt |-> req[r].prompt,
     code |-> code,
     fingerprint |-> generate_fingerprint(req[r]),
     llm_provider |-> last_provider_used]

\* A run that stores the artifact before it looks at the scan result.
RejectAfterStore(r, code) ==
    /\ pc[r] = "generating"
    /\ ~scan(code).passed
    /\ LET info == ScriptInfo(r, code)
       IN  /\ files' = Put(files, info.fingerprint, stored_file(info, now))
           /\ metadata' = Put(metadata, info.fingerprint, stored_meta(now))
           /\ writer' = [writer EXCEPT ![info.fingerprint] = r]
    /\ pc' = [pc EXCEPT ![r] = "rejected"]
    /\ err' = [err EXCEPT ![r] =
                  [type |-> "SecurityError", violations |-> scan(code).violations]]
    /\ audit' = [audit EXCEPT ![r] = log_security_violations(@, scan(code).violations, now)]
    /\ steps' = [steps EXCEPT ![r] = @ \o <<"scan">>]
    /\ UNCHANGED <<req, gp, provider, resp, stats, last_provider_used, poolVars,
                   envVars, after, steady>>
    /\ UNCHANGED <<runnerVars, retryVars, storeVars, securityVars>>

\* generate_code returns code: script_generator.py lines 51-66, then engine.py
\* lines 72-84 when the scan fails.
Reject(r, code) ==
    /\ pc[r] = "generating"
    /\ ~scan(code).passed
    /\ pc' = [pc EXCEPT ![r] = "rejected"]
    /\ err' = [err EXCEPT ![r] =
                  [type |-> "SecurityError", violations |-> scan(code).violations]]
    /\ audit' = [audit EXCEPT ![r] = log_security_violations(@, scan(code).violations, now)]
    /\ steps' = [steps EXCEPT ![r] = @ \o <<"scan">>]
    /\ UNCHANGED <<req, gp, provider, resp, cacheVars, last_provider_used, poolVars,
                   envVars, histVars>>
    /\ UNCHANGED <<runnerVars, retryVars, storeVars, securityVars>>

\* generate_code returns code that passes the scan, and store_script raises
\* CacheError before it has written anything: engine.py lines 72-105.
StoreFails(r, code) ==
    /\ pc[r] = "generating"
    /\ scan(code).passed
    /\ pc' = [pc EXCEPT ![r] = "failed"]
    /\ err' = [err EXCEPT ![r] = [type |-> "CacheError"]]
    /\ steps' = [steps EXCEPT ![r] = @ \o <<"scan">>]
    /\ UNCHANGED <<req, gp, provider, resp, audit, cacheVars, last_provider_used,
                   poolVars, envVars, histVars>>
    /\ UNCHANGED <<runnerVars, retryVars, storeVars, securityVars>>

\* The steps of lines 72-131 in an engine that runs the code before it has
\* scanned and stored it.
miss_steps_execute_first(q) ==
    (IF execute_requested(q) THEN <<"execute">> ELSE <<>>) \o <<"scan", "persist", "respond">>

\* engine.py lines 72-131 in the order of the code: scan (74), store_script
\* (105), _execute_script when asked for (108-110), the response (113-131)
miss_steps(q) ==
    <<"scan", "persist">> \o (IF execute_requested(q) THEN <<"execute">> ELSE <<>>)
        \o <<"respond">>

\* A run that takes the artifact out of the cache again when its execution
\* failed.
PersistUnlessFailed(r, code) ==
    /\ pc[r] = "generating"
    /\ scan(code).passed
    /\ LET info == ScriptInfo(r, code)
           fp == info.fingerprint
       IN  \E res \in (IF execute_requested(req[r]) THEN ExecutionResults ELSE {NoResult}) :
             /\ resp' = [resp EXCEPT ![r] =
                            [script_id |-> info.script_id, code |-> code, cached |-> FALSE,
                             cache_hit_count |-> 0, llm_provider |-> last_provider_used,
                             fingerprint |-> fp, execution_result |-> res]]
             /\ IF res.ran /\ ~res.success
                THEN /\ files' = Del(files, fp)
                     /\ metadata' = Del(metadata, fp)
                     /\ writer' = [writer EXCEPT ![fp] = 0]
                     /\ stats' = stats
                ELSE /\ files' = Put(files, fp, stored_file(info, now))
                     /\ metadata' = Put(metadata, fp, stored_meta(now))
                     /\ writer' = [writer EXCEPT ![fp] = r]
                     /\ stats' = store_stats(stats, stored_meta(now).size_bytes)
             /\ audit' = [audit EXCEPT ![r] =
                            log_audit_event(log_execution(@, req[r], now),
                                            "script_generated", info.script_id, now)]
    /\ steps' = [steps EXCEPT ![r] = @ \o miss_steps(req[r])]
    /\ pc' = [pc EXCEPT ![r] = "responded"]
    /\ UNCHANGED <<req, gp, provider, err, last_provider_used, poolVars, envVars,
                   after, steady>>
    /\ UNCHANGED <<runnerVars, retryVars, storeVars, securityVars>>

\* generate_code returns code that passes the scan: engine.py lines 72-131.
\* container_runner.execute blocks the event loop and always returns a
\* result, of a successful or of a failed execution; the engine passes it on.
Persist(r, code) ==
    /\ pc[r] = "generating"
    /\ scan(code).passed
    /\ LET info == ScriptInfo(r, code)
           fp == info.fingerprint
       IN  /\ files' = Put(files, fp, stored_file(info, now))
           /\ metadata' = Put(metadata, fp, stored_meta(now))
           /\ stats' = store_stats(stats, stored_meta(now).size_bytes)
           /\ writer' = [writer EXCEPT ![fp] = r]
           /\ audit' = [audit EXCEPT ![r] =
                          log_audit_event(log_execution(@, req[r], now),
                                          "script_generated", info.script_id, now)]
           /\ \E res \in (IF execute_requested(req[r]) THEN ExecutionResults
                          ELSE {NoResult}) :
                resp' = [resp EXCEPT ![r] =
                            [script_id |-> info.script_id,
                             code |-> code,
                             cached |-> FALSE,
                             cache_hit_count |-> 0,
                             llm_provider |-> last_provider_used,
                             fingerprint |-> fp,
                             execution_result |-> res]]
    /\ steps' = [steps EXCEPT ![r] = @ \o miss_steps(req[r])]
    /\ pc' = [pc EXCEPT ![r] = "responded"]
    /\ UNCHANGED <<req, gp, provider, err, last_provider_used, poolVars, envVars,
                   after, steady>>
    /\ UNCHANGED <<runnerVars, retryVars, storeVars, securityVars>>

Cancelled(at) == [type |-> "Cancelled", at |-> at]

\* The task of run_script is cancelled while it waits in health_check or in
\* generate_code: CancelledError is raised at the await and leaves
\* run_script, which has no handler for it.
Cancel(r) ==
    /\ pc[r] \in {"probing", "generating"}
    /\ pc' = [pc EXCEPT ![r] = "cancelled"]
    /\ err' = [err EXCEPT ![r] = Cancelled(pc[r])]
    /\ UNCHANGED <<req, gp, provider, resp, audit, steps, cacheVars, last_provider_used,
                   poolVars, envVars, histVars>>
    /\ UNCHANGED <<runnerVars, retryVars, storeVars, securityVars>>

\* The run is stopped while container_runner.execute blocks in the sandbox
\* (line 110; KeyboardInterrupt raised in the blocking call, which the
\* except Exception of container_runner.py line 67 does not catch): lines
\* 72-105 have run, lines 113-131 do not.
Interrupted(r, code) ==
    /\ pc[r] = "generating"
    /\ scan(code).passed
    /\ execute_requested(req[r])
    /\ LET info == ScriptInfo(r, code)
           fp == info.fingerprint
       IN  /\ files' = Put(files, fp, stored_file(info, now))
           /\ metadata' = Put(metadata, fp, stored_meta(now))
           /\ stats' = store_stats(stats, stored_meta(now).size_bytes)
           /\ writer' = [writer EXCEPT ![fp] = r]
    /\ steps' = [steps EXCEPT ![r] = @ \o <<"scan", "persist", "execute">>]
    /\ pc' = [pc EXCEPT ![r] = "cancelled"]
    /\ err' = [err EXCEPT ![r] = Cancelled("executing")]
    /\ UNCHANGED <<req, gp, provider, resp, audit, last_provider_used, poolVars, envVars,
                   after, steady>>
    /\ UNCHANGED <<runnerVars, retryVars, storeVars, securityVars>>

\* clear_scripts(all_scripts=True): cache_manager.py lines 200-201, 239-262
ClearAll ==
    /\ clears < MaxClears
    /\ clears' = clears + 1
    /\ files' = [x \in DOMAIN files \ DOMAIN metadata |-> files[x]]
    /\ metadata' = Empty
    /\ stats' = clear_stats(stats, metadata, DOMAIN metadata)
    /\ writer' = [fp \in Fingerprints |-> IF fp \in DOMAIN metadata THEN 0 ELSE writer[fp]]
    /\ UNCHANGED <<runVars, last_provider_used, poolVars, healthy, now, ticks, offered,
                   after, steady>>
    /\ UNCHANGED <<runnerVars, retryVars, storeVars, securityVars>>

(***************************************************************************)
(* The environment: a provider goes down or comes back, the clock advances *)
(* by the time to live or a second more.                                    *)
(***************************************************************************)
HealthChanges(p) ==
    /\ healthy' = [healthy EXCEPT ![p] = ~@]
    /\ steady' = [r \in Runs |-> FALSE]
    /\ UNCHANGED <<runVars, cacheVars, last_provider_used, poolVars, now, ticks, clears,
                   offered, writer, after>>
    /\ UNCHANGED <<runnerVars, retryVars, storeVars, securityVars>>

Tick(d) ==
    /\ ticks < MaxTicks
    /\ ticks' = ticks + 1
    /\ now' = now + d
    /\ UNCHANGED <<runVars, cacheVars, last_provider_used, poolVars, healthy, clears,
                   offered, histVars>>
    /\ UNCHANGED <<runnerVars, retryVars, storeVars, securityVars>>

TickSteps == {DefaultTTL, DefaultTTL + 1}

InitRuns ==
    /\ pc = [r \in Runs |-> "idle"]
    /\ req = [r \in Runs |-> NoReq]
    /\ gp = [r \in Runs |-> GpIdle]
    /\ provider = [r \in Runs |-> NoProvider]
    /\ resp = [r \in Runs |-> NoResponse]
    /\ err = [r \in Runs |-> NoError]
    /\ audit = [r \in Runs |-> <<>>]
    /\ steps = [r \in Runs |-> <<>>]
    /\ last_provider_used = NoProvider

\* CacheManager.__init__ on an empty cache directory
InitCache ==
    /\ files = Empty
    /\ metadata = Empty
    /\ stats = [hits |-> 0, misses |-> 0, evictions |-> 0, total_size_bytes |-> 0]

\* FallbackManager.__init__ (lines 14-25)
InitStats ==
    /\ health_status = [p \in Providers |-> TRUE]
    /\ provider_stats = [p \in Providers |-> [requests |-> 0, successes |-> 0, failures |-> 0]]

InitClock ==
    /\ now = 0
    /\ ticks = 0
    /\ clears = 0

(***************************************************************************)
(* security/ast_scanner.py and security/policy_manager.py.                 *)
(*                                                                         *)
(* A regular expression is the text of its pattern.  A code is its text    *)
(* together with what ast.parse and re.finditer (with re.IGNORECASE) find  *)
(* in it: whether it parses as Python, its import nodes and the names of   *)
(* the functions it calls in ast.walk, and the patterns that match it.     *)
(* A module name is the sequence of the components of its dotted name.     *)
(***************************************************************************)
SecurityRule(name, pattern, severity) ==
    [name |-> name, pattern |-> pattern, severity |-> severity]

SecurityPolicy(name, rules, allowed_imports, blocked_imports, allowed_functions, blocked_functions) ==
    [name |-> name, rules |-> rules, allowed_imports |-> allowed_imports,
     blocked_imports |-> blocked_imports, allowed_functions |-> allowed_functions,
     blocked_functions |-> blocked_functions]

SecurityViolation(rule_name, severity, pattern_matched) ==
    [rule_name |-> rule_name, severity |-> severity, pattern_matched |-> pattern_matched]

\* the patterns of the rules of the built-in policies (policy_manager.py)
strict_no_dangerous_imports ==
    "import\\s+(os|subprocess|sys|shutil|socket|urllib|requests|pickle|ctypes|multiprocessing|threading|eval|exec|compile|__import__)"

strict_no_dangerous_functions ==
    "(eval|exec|compile|__import__|open|file|input|exit|quit)\\s*\\("

strict_no_system_calls ==
    "os\\.system|subprocess\\.|os\\.popen"

moderate_no_dangerous_imports ==
    "import\\s+(subprocess|socket|urllib|requests|pickle|ctypes|multiprocessing|threading|eval|exec|compile|__import__)"

moderate_no_dangerous_functions ==
    "(eval|exec|compile|__import__|exit|quit)\\s*\\("

moderate_warn_system_calls ==
    "os\\.system|subprocess\\."

permissive_no_eval_exec ==
    "(eval|exec|compile|__import__)\\s*\\("

permissive_warn_dangerous_imports ==
    "import\\s+(subprocess|socket|urllib|requests|pickle|ctypes)"

basic_no_dangerous_functions ==
    "(eval|exec|compile|__import__|open|file|input|exit|quit|reload)\\s*\\("

\* ASTScanner.__init__ (lines 16-72) and the banks of _scan_javascript,
\* _scan_bash and _scan_powershell
dangerous_imports ==
    {"__import__", "cProfile", "cffi", "compile", "concurrent", "ctypes", "dbm", "eval",
     "exec", "fnmatch", "glob", "http", "imp", "importlib", "marshal", "multiprocessing",
     "os", "pickle", "pkgutil", "pstats", "requests", "shelve", "shutil", "socket",
     "subprocess", "sys", "threading", "urllib", "urllib3"}

dangerous_functions ==
    {"__import__", "compile", "eval", "exec", "exit", "file", "input", "open", "quit",
     "raw_input", "reload"}

dangerous_patterns ==
    {"os\\.system\\s*\\(", "subprocess\\.", "eval\\s*\\(", "exec\\s*\\(",
     "__import__\\s*\\(", "compile\\s*\\(", "open\\s*\\([^)]*[\\'\"]w[\\'\"]",
     "file\\s*\\([^)]*[\\'\"]w[\\'\"]"}

js_patterns ==
    {"eval\\s*\\(", "Function\\s*\\(", "setTimeout\\s*\\([^,]*,\\s*[^)]*\\)",
     "setInterval\\s*\\([^,]*,\\s*[^)]*\\)", "document\\.write\\s*\\(", "innerHTML\\s*=",
     "outerHTML\\s*=", "document\\.createElement\\s*\\(", "XMLHttpRequest",
     "fetch\\s*\\("}

bash_patterns ==
    {"rm\\s+-rf", "mkdir\\s+/", "chmod\\s+777", "wget\\s+", "curl\\s+", "nc\\s+",
     "netcat\\s+", "ssh\\s+", "scp\\s+", "rsync\\s+", ">&\\s*/dev/null", "2>&1"}

ps_patterns ==
    {"Invoke-Expression", "Invoke-Command", "Start-Process", "Remove-Item\\s+-Recurse",
     "Set-ExecutionPolicy", "Get-Content\\s+.*\\.exe", "Invoke-WebRequest",
     "Invoke-RestMethod"}

\* _load_builtin_policies (lines 64-235), _create_basic_policy (lines
\* 265-324) and the policy of the scanner's unit tests
strict_policy ==
    SecurityPolicy("strict",
        {SecurityRule("no_dangerous_imports",
              strict_no_dangerous_imports,
              "error"),
          SecurityRule("no_dangerous_functions",
              strict_no_dangerous_functions,
              "error"),
          SecurityRule("no_system_calls",
              strict_no_system_calls,
              "error")},
        {},
        {"os", "subprocess", "sys", "shutil", "socket", "urllib", "requests", "pickle",
         "ctypes", "multiprocessing", "threading", "eval", "exec", "compile",
         "__import__"},
        {},
        {"eval", "exec", "compile", "__import__", "open", "file", "input", "exit",
         "quit", "reload"})

moderate_policy ==
    SecurityPolicy("moderate",
        {SecurityRule("no_dangerous_imports",
              moderate_no_dangerous_imports,
              "error"),
          SecurityRule("no_dangerous_functions",
              moderate_no_dangerous_functions,
              "error"),
          SecurityRule("warn_system_calls",
              moderate_warn_system_calls,
              "warning")},
        {},
        {"subprocess", "socket", "urllib", "requests", "pickle", "ctypes",
         "multiprocessing", "threading", "eval", "exec", "compile", "__import__"},
        {},
        {"eval", "exec", "compile", "__import__", "exit", "quit", "reload"})

permissive_policy ==
    SecurityPolicy("permissive",
        {SecurityRule("no_eval_exec",
              permissive_no_eval_exec,
              "error"),
          SecurityRule("warn_dangerous_imports",
              permissive_warn_dangerous_imports,
              "warning")},
        {},
        {"eval", "exec", "compile", "__import__"},
        {},
        {"eval", "exec", "compile", "__import__"})

basic_policy ==
    SecurityPolicy("basic",
        {SecurityRule("no_dangerous_imports",
              strict_no_dangerous_imports,
              "error"),
          SecurityRule("no_dangerous_functions",
              basic_no_dangerous_functions,
              "error")},
        {},
        {"os", "subprocess", "sys", "shutil", "socket", "urllib", "requests", "pickle",
         "ctypes", "multiprocessing", "threading", "eval", "exec", "compile",
         "__import__"},
        {},
        {"eval", "exec", "compile", "__import__", "open", "file", "input", "exit",
         "quit", "reload"})

test_policy ==
    SecurityPolicy("test_policy",
        {SecurityRule("test_rule",
              "test_pattern",
              "error")},
        {},
        {"dangerous_module"},
        {},
        {"dangerous_function"})

\* two policies a policies directory may hold: one that lists os as allowed
\* and as blocked and has a warning rule, one whose rule is no regular
\* expression
allow_os_policy ==
    SecurityPolicy("allow_os", {SecurityRule("warn_rule", "warn_pattern", "warning")},
                   {"os"}, {"os"}, {}, {})

broken_policy ==
    SecurityPolicy("broken", {SecurityRule("broken_rule", "(", "error")}, {}, {}, {}, {})

\* the patterns re.compile refuses
InvalidPatterns == {"("}

\* the texts that are scanned
Codes ==
   {[text |-> "print(\"hello\")",
     syntax_ok |-> TRUE,
     imports |-> {},
     calls |-> {"print"},
     matched |-> {}],
    [text |-> "import os\nprint(os.getcwd())",
     syntax_ok |-> TRUE,
     imports |-> {[type |-> "Import", names |-> <<<<"os">>>>, module |-> <<>>]},
     calls |-> {"getcwd", "print"},
     matched |-> {strict_no_dangerous_imports}],
    [text |-> "import os; os.system('rm -rf /tmp/*')",
     syntax_ok |-> TRUE,
     imports |-> {[type |-> "Import", names |-> <<<<"os">>>>, module |-> <<>>]},
     calls |-> {"system"},
     matched |-> {"os\\.system\\s*\\(", "rm\\s+-rf", strict_no_dangerous_imports,
                  strict_no_system_calls, moderate_warn_system_calls}],
    [text |-> "from os.path import join",
     syntax_ok |-> TRUE,
     imports |-> {[type |-> "ImportFrom", names |-> <<>>, module |-> <<"os", "path">>]},
     calls |-> {},
     matched |-> {}],
    [text |-> "import json, os",
     syntax_ok |-> TRUE,
     imports |-> {
                  [type |-> "Import", names |-> <<<<"json">>, <<"os">>>>, module |-> <<>>]},
     calls |-> {},
     matched |-> {}],
    [text |-> "import dangerous_module",
     syntax_ok |-> TRUE,
     imports |-> {
                  [type |-> "Import", names |-> <<<<"dangerous_module">>>>, module |-> <<>>]},
     calls |-> {},
     matched |-> {}],
    [text |-> "import socket",
     syntax_ok |-> TRUE,
     imports |-> {[type |-> "Import", names |-> <<<<"socket">>>>, module |-> <<>>]},
     calls |-> {},
     matched |-> {strict_no_dangerous_imports, moderate_no_dangerous_imports,
                  permissive_warn_dangerous_imports}],
    [text |-> "f = open(\"x\")",
     syntax_ok |-> TRUE,
     imports |-> {},
     calls |-> {"open"},
     matched |-> {strict_no_dangerous_functions, basic_no_dangerous_functions}],
    [text |-> "def f(:",
     syntax_ok |-> FALSE,
     imports |-> {},
     calls |-> {},
     matched |-> {}],
    [text |-> "test_pattern = \"some_value\"",
     syntax_ok |-> TRUE,
     imports |-> {},
     calls |-> {},
     matched |-> {"test_pattern"}],
    [text |-> "fetch(\"http://x\")",
     syntax_ok |-> TRUE,
     imports |-> {},
     calls |-> {"fetch"},
     matched |-> {"fetch\\s*\\("}],
    [text |-> "var test_pattern = 1;",
     syntax_ok |-> FALSE,
     imports |-> {},
     calls |-> {},
     matched |-> {"test_pattern"}],
    [text |-> "rm -rf /tmp/x",
     syntax_ok |-> TRUE,
     imports |-> {},
     calls |-> {},
     matched |-> {"rm\\s+-rf"}],
    [text |-> "python -c \"import os; os.system('ls')\"",
     syntax_ok |-> FALSE,
     imports |-> {},
     calls |-> {},
     matched |-> {"os\\.system\\s*\\(", strict_no_dangerous_imports,
                  strict_no_system_calls, moderate_warn_system_calls}],
    [text |-> "Invoke-Expression $cmd",
     syntax_ok |-> FALSE,
     imports |-> {},
     calls |-> {},
     matched |-> {"Invoke-Expression"}],
    [text |-> "$test_pattern = 1",
     syntax_ok |-> FALSE,
     imports |-> {},
     calls |-> {},
     matched |-> {"test_pattern"}]}

\* bool(re.finditer(pattern, code, re.IGNORECASE)) has a match
finditer(pattern, code) == pattern \in code.matched

\* re.match(pattern, name) for a pattern that is a plain name: the name
\* starts with it
re_match(pattern, name) == name = pattern

\* _get_module_name (lines 413-419): the first component of the first name of
\* an import statement, the whole module of a from-import
get_module_name(node) ==
    IF node.type = "Import" THEN <<node.names[1][1]>> ELSE node.module

\* module_name in self.dangerous_imports: a dotted name is no member
in_dangerous_imports(module_name) ==
    Len(module_name) = 1 /\ module_name[1] \in dangerous_imports

\* _is_import_allowed (lines 429-441); re.match of a plain name against a
\* dotted name looks at the start of the first component
is_import_allowed(module_name, policy) ==
    IF \E pattern \in policy.allowed_imports :
           module_name # <<>> /\ re_match(pattern, module_name[1])
    THEN TRUE
    ELSE IF \E pattern \in policy.blocked_imports :
                module_name # <<>> /\ re_match(pattern, module_name[1])
    THEN FALSE
    ELSE TRUE

\* _is_function_allowed (lines 443-455)
is_function_allowed(func_name, policy) ==
    IF \E pattern \in policy.allowed_functions : re_match(pattern, func_name) THEN TRUE
    ELSE IF \E pattern \in policy.blocked_functions : re_match(pattern, func_name)
    THEN FALSE
    ELSE TRUE

\* _scan_imports (lines 311-338)
scan_imports(code, policy) ==
    {SecurityViolation("dangerous_import", "error", get_module_name(node)[1]) :
        node \in {n \in code.imports :
                    /\ in_dangerous_imports(get_module_name(n))
                    /\ ~(policy # None /\ is_import_allowed(get_module_name(n), policy))}}

\* _scan_function_calls (lines 340-367)
scan_function_calls(code, policy) ==
    {SecurityViolation("dangerous_function", "error", func_name) :
        func_name \in {f \in code.calls :
                         /\ f \in dangerous_functions
                         /\ ~(policy # None /\ is_function_allowed(f, policy))}}

\* _scan_patterns (lines 369-389)
scan_patterns(code) ==
    {SecurityViolation("dangerous_pattern", "error", pattern) :
        pattern \in {p \in dangerous_patterns : finditer(p, code)}}

\* _scan_generic (lines 288-309)
scan_generic(code) ==
    {SecurityViolation("dangerous_pattern", "error", pattern) :
        pattern \in {p \in dangerous_patterns : finditer(p, code)}}

\* _apply_policy_rules (lines 391-411): re.finditer raises re.error on a
\* pattern that does not compile
apply_policy_rules_raises(policy) ==
    \E rule \in policy.rules : rule.pattern \in InvalidPatterns

apply_policy_rules(code, policy) ==
    {SecurityViolation(rule.name, rule.severity, rule.pattern) :
        rule \in {r \in policy.rules : finditer(r.pattern, code)}}

\* _scan_python (lines 140-175)
scan_python(code, policy) ==
    IF ~code.syntax_ok THEN {SecurityViolation("syntax_error", "error", "")}
    ELSE scan_imports(code, policy) \cup scan_function_calls(code, policy)
            \cup scan_patterns(code)
            \cup (IF policy # None THEN apply_policy_rules(code, policy) ELSE {})

scan_python_raises(code, policy) ==
    code.syntax_ok /\ policy # None /\ apply_policy_rules_raises(policy)

\* _scan_javascript (lines 177-214)
scan_javascript(code, policy) ==
    {SecurityViolation("dangerous_pattern", "error", pattern) :
        pattern \in {p \in js_patterns : finditer(p, code)}} \cup scan_generic(code)

\* _scan_bash (lines 216-252)
scan_bash(code, policy) ==
    {SecurityViolation("dangerous_pattern", "error", pattern) :
        pattern \in {p \in bash_patterns : finditer(p, code)}}

\* _scan_powershell (lines 254-286)
scan_powershell(code, policy) ==
    {SecurityViolation("dangerous_pattern", "error", pattern) :
        pattern \in {p \in ps_patterns : finditer(p, code)}}

\* A verdict that lets only a scan without findings pass.
scan_result_no_findings(violations) ==
    [violations |-> violations, passed |-> violations = {}, raised |-> FALSE]

\* scan lines 98-118: the result of a scan that did not raise
scan_result(violations) ==
    [violations |-> violations,
     passed |-> {v \in violations : v.severity = "error"} = {},
     raised |-> FALSE]

\* scan lines 120-138: the result when anything in the scan raised
scan_error_result ==
    [violations |-> {SecurityViolation("scan_error", "error", "")},
     passed |-> FALSE,
     raised |-> TRUE]

\* scan (lines 74-138)
ASTScanner_scan(code, language, policy) ==
    IF language = "python" /\ scan_python_raises(code, policy) THEN scan_error_result
    ELSE scan_result(
            CASE language = "python" -> scan_python(code, policy)
              [] language = "javascript" -> scan_javascript(code, policy)
              [] language \in {"bash", "sh"} -> scan_bash(code, policy)
              [] language = "powershell" -> scan_powershell(code, policy)
              [] OTHER -> scan_generic(code))

\* get_policy (lines 27-39); an empty name is false to Python
NoPolicyName == "none"

get_policy(registered, default, policy_name) ==
    IF policy_name \notin {NoPolicyName, ""} /\ policy_name \in DOMAIN registered
    THEN registered[policy_name]
    ELSE IF default # None THEN default
    ELSE basic_policy

\* PolicyManager.__init__ (lines 16-25) with an empty policies directory, and
\* no scan yet
InitSecurity ==
    /\ scanned = [op |-> "none"]
    /\ policies = [n \in {"strict", "moderate", "permissive"} |->
                      CASE n = "strict" -> strict_policy
                        [] n = "moderate" -> moderate_policy
                        [] OTHER -> permissive_policy]
    /\ default_policy = moderate_policy
    /\ fetched = [op |-> "none"]

\* the requests sent when nothing else is said: requests without a context
InitOffered ==
    offered = {q \in RunRequest : q.context = NoContext /\ q.cache_ttl = DefaultTTL}

InitHistory ==
    /\ writer = [fp \in Fingerprints |-> 0]
    /\ after = [r \in Runs |-> 0]
    /\ steady = [r \in Runs |-> TRUE]

\* ContainerRunner.__init__, and no execute call yet
InitRunner ==
    /\ rpc = "idle"
    /\ rlang = ""
    /\ workspace = "none"
    /\ container = "none"
    /\ container_id = FALSE
    /\ result = NoResult
    /\ execs = 0
    /\ leakedDirs = 0
    /\ leakedContainers = 0

\* No _make_request call yet
InitRetry ==
    /\ qpc = "idle"
    /\ max_retries = 0
    /\ attempt = 0
    /\ outcomes = <<>>
    /\ waited = <<>>
    /\ slept = <<>>
    /\ qresult = NoError
    /\ requests = 0

\* The fingerprints used when the cache is driven on its own
Keys == {"k1", "k2"}

\* CacheManager.__init__ on an empty cache directory: no index file, no call yet
InitStore ==
    /\ metadata_file = Empty
    /\ storing = [stage |-> "idle"]
    /\ last = [op |-> "none"]
    /\ cops = 0
    /\ stored = [fp \in Keys |-> None]

\* Two enabled providers, A of priority 1 and B of priority 2, each healthy or
\* not for the whole behaviour.
Init ==
    /\ InitRuns /\ InitCache /\ InitStats /\ InitClock /\ InitHistory /\ InitRunner
    /\ InitRetry /\ InitStore /\ InitOffered /\ InitSecurity
    /\ enabled = [p \in Providers |-> TRUE]
    /\ priority = [p \in Providers |-> Pos(p)]
    /\ healthy \in [Providers -> BOOLEAN]

Next ==
    \/ \E r \in Runs, q \in RunRequest : Start(r, q)
    \/ \E r \in Runs : Probe(r)
    \/ \E r \in Runs : GenerateFails(r)
    \/ \E r \in Runs, code \in CodeBodies : Reject(r, code)
    \/ \E r \in Runs, code \in CodeBodies : StoreFails(r, code)
    \/ \E r \in Runs, code \in CodeBodies : Persist(r, code)
    \/ ClearAll
    \/ \E d \in TickSteps : Tick(d)

Spec == Init /\ [][Next]_vars

(***************************************************************************)
(* The provider pool on its own: callers of FallbackManager.get_provider,  *)
(* any configuration of the providers, and providers whose health changes  *)
(* at any time.                                                            *)
(***************************************************************************)
MaxPriority == 2

PreferredNames == Providers \cup {NoProvider, "Z"}

\* get_provider(preferred) is called: lines 27-43 up to the first health check
PoolCall(c, preferred) ==
    /\ pc[c] = "idle"
    /\ gp' = [gp EXCEPT ![c] = get_provider_begin(preferred)]
    /\ pc' = [pc EXCEPT ![c] = IF gp'[c].kind = "raise" THEN "raised" ELSE "probing"]
    /\ steady' = [steady EXCEPT ![c] = TRUE]
    /\ UNCHANGED <<req, provider, resp, audit, steps, err, cacheVars, last_provider_used, poolVars,
                   envVars, writer, after>>
    /\ UNCHANGED <<runnerVars, retryVars, storeVars, securityVars>>

\* a health check of the call returns: lines 32-59 up to the next one
PoolProbe(c) ==
    /\ pc[c] = "probing"
    /\ LET p == ProbeTarget(gp[c])
           hs == is_provider_healthy(health_status, p, healthy[p])
           g == get_provider_resume(gp[c], hs)
       IN  /\ health_status' = hs
           /\ gp' = [gp EXCEPT ![c] = g]
           /\ pc' = [pc EXCEPT ![c] = CASE g.kind = "probe" -> "probing"
                                        [] g.kind = "raise" -> "raised"
                                        [] OTHER -> "returned"]
           /\ provider' = [provider EXCEPT ![c] = g.provider]
    /\ UNCHANGED <<req, resp, audit, steps, err, cacheVars, last_provider_used, enabled, priority,
                   provider_stats, envVars, histVars>>
    /\ UNCHANGED <<runnerVars, retryVars, storeVars, securityVars>>

\* the caller is done with the provider or the error, and may call again
PoolDone(c) ==
    /\ pc[c] \in {"returned", "raised"}
    /\ pc' = [pc EXCEPT ![c] = "idle"]
    /\ gp' = [gp EXCEPT ![c] = GpIdle]
    /\ provider' = [provider EXCEPT ![c] = NoProvider]
    /\ UNCHANGED <<req, resp, audit, steps, err, cacheVars, last_provider_used, poolVars, envVars,
                   histVars>>
    /\ UNCHANGED <<runnerVars, retryVars, storeVars, securityVars>>

InitPool ==
    /\ InitRuns /\ InitCache /\ InitStats /\ InitClock /\ InitHistory /\ InitRunner
    /\ InitRetry /\ InitStore /\ InitOffered /\ InitSecurity
    /\ enabled \in [Providers -> BOOLEAN]
    /\ priority \in [Providers -> 1 .. MaxPriority]
    /\ healthy \in [Providers -> BOOLEAN]

NextPool ==
    \/ \E c \in Runs, preferred \in PreferredNames : PoolCall(c, preferred)
    \/ \E c \in Runs : PoolProbe(c)
    \/ \E c \in Runs : PoolDone(c)
    \/ \E p \in Providers : HealthChanges(p)

SpecPool == InitPool /\ [][NextPool]_vars

(***************************************************************************)
(* container_runner.py.  ContainerRunner.execute calls the docker SDK and  *)
(* the file system synchronously and never reaches the event loop, so one  *)
(* call runs at a time and a cancellation cannot land inside it; each of   *)
(* its helpers is one step, and a step that raises runs the handler of     *)
(* execute (lines 67-84) to the return.  workspace and container are the   *)
(* staging directory and the docker container of the current call.         *)
(***************************************************************************)
MaxExecs == 2

Languages == {"python", "javascript", "bash", "powershell"}

\* the limits of the call: the ones the unit tests use
MemoryLimitMb == 256
CpuLimitSeconds == 30

\* what container.stats may report, in MB and ms
MemoryReadings == {0, MemoryLimitMb, MemoryLimitMb + 1}
CpuReadings == {0, CpuLimitSeconds * 1000, CpuLimitSeconds * 1000 + 1}

\* _check_resource_limits (lines 285-300)
check_resource_limits(memory_used_mb, cpu_time_ms) ==
    (IF memory_used_mb > MemoryLimitMb THEN {"Memory limit exceeded"} ELSE {})
        \cup (IF cpu_time_ms > CpuLimitSeconds * 1000 THEN {"CPU time limit exceeded"} ELSE {})

\* A report whose success looks at the exit code alone.
ExecutionResultByExitCode(exit_code, memory_used_mb, cpu_time_ms) ==
    [ran |-> TRUE,
     success |-> exit_code = 0,
     exit_code |-> exit_code,
     resource_limits_exceeded |-> check_resource_limits(memory_used_mb, cpu_time_ms)]

\* _execute_in_container lines 204-221
ExecutionResult(exit_code, memory_used_mb, cpu_time_ms) ==
    [ran |-> TRUE,
     success |-> exit_code = 0 /\ check_resource_limits(memory_used_mb, cpu_time_ms) = {},
     exit_code |-> exit_code,
     resource_limits_exceeded |-> check_resource_limits(memory_used_mb, cpu_time_ms)]

\* execute lines 74-84
ErrorResult ==
    [ran |-> TRUE, success |-> FALSE, exit_code |-> -1, resource_limits_exceeded |-> {}]

\* _cleanup_container (lines 302-310): remove(force=True), a DockerException
\* is logged and swallowed
cleanup_container(ct, removed) == IF removed /\ ct # "none" THEN "removed" ELSE ct

\* _cleanup_workspace (lines 312-320): rmtree, any exception is logged and
\* swallowed
cleanup_workspace(ws, removed) == IF removed /\ ws = "exists" THEN "deleted" ELSE ws

\* execute lines 67-84: clean the container up if container_id is set, and
\* return the error result; the workspace is left alone
ExecuteHandler(ct, removed) ==
    /\ container' = IF container_id' THEN cleanup_container(ct, removed) ELSE ct
    /\ result' = ErrorResult
    /\ rpc' = "done"

\* execute is called (lines 26-38)
ExecuteBegin(language) ==
    /\ rpc = "idle"
    /\ execs < MaxExecs
    /\ execs' = execs + 1
    /\ rpc' = "stage"
    /\ rlang' = language
    /\ workspace' = "none"
    /\ container' = "none"
    /\ container_id' = FALSE
    /\ result' = NoResult
    /\ UNCHANGED <<leakedDirs, leakedContainers, engineVars, retryVars, storeVars, securityVars>>

\* _create_workspace (lines 86-110): mkdtemp, write_text, and chmod for bash
StageOutcomes == {"ok", "mkdtemp_raises", "write_raises", "chmod_raises"}

CreateWorkspace(o) ==
    /\ rpc = "stage"
    /\ o = "chmod_raises" => rlang = "bash"
    /\ workspace' = IF o = "mkdtemp_raises" THEN "none" ELSE "exists"
    /\ UNCHANGED <<rlang, container_id, execs, leakedDirs, leakedContainers, engineVars, retryVars, storeVars, securityVars>>
    /\ IF o = "ok"
       THEN /\ rpc' = "create"
            /\ UNCHANGED <<container, result>>
       ELSE ExecuteHandler(container, TRUE)

\* _create_container (lines 112-170): containers.create, then container.start;
\* the id is returned, and container_id assigned, only when both succeed
CreateOutcomes == {"ok", "create_raises", "start_raises"}

CreateContainer(o, removed) ==
    /\ rpc = "create"
    /\ container_id' = (o = "ok")
    /\ UNCHANGED <<rlang, workspace, execs, leakedDirs, leakedContainers, engineVars, retryVars, storeVars, securityVars>>
    /\ IF o = "ok"
       THEN /\ rpc' = "run"
            /\ container' = "running"
            /\ result' = result
       ELSE ExecuteHandler(IF o = "create_raises" THEN "none" ELSE "created", removed)

\* _execute_in_container (lines 172-221): containers.get, wait bounded by the
\* wall-clock limit, kill on a timeout, logs, stats
WaitOutcomes == {"exit_0", "exit_1", "timeout"}

RunOutcomes ==
    [get : {"ok", "raises"}, wait : WaitOutcomes, kill : {"ok", "raises"},
     logs : {"ok", "raises"}, stats : {"ok", "raises"},
     memory_used_mb : MemoryReadings, cpu_time_ms : CpuReadings]

ExitCode(o) ==
    CASE o.wait = "exit_0" -> 0
      [] o.wait = "exit_1" -> 1
      [] OTHER -> 124

\* how far the container got when the helper raised or returned
ContainerAfter(o) ==
    IF o.get = "raises" THEN "running"
    ELSE IF o.wait = "timeout" THEN (IF o.kill = "ok" THEN "killed" ELSE "running")
    ELSE "exited"

Raises(o) ==
    \/ o.get = "raises"
    \/ o.wait = "timeout" /\ o.kill = "raises"
    \/ o.logs = "raises"

ExecuteInContainer(o, removed) ==
    /\ rpc = "run"
    /\ UNCHANGED <<rlang, workspace, container_id, execs, leakedDirs, leakedContainers,
                   engineVars, retryVars, storeVars, securityVars>>
    /\ IF Raises(o)
       THEN ExecuteHandler(ContainerAfter(o), removed)
       ELSE /\ rpc' = "cleanup"
            /\ container' = ContainerAfter(o)
            /\ result' = IF o.stats = "ok"
                         THEN ExecutionResult(ExitCode(o), o.memory_used_mb, o.cpu_time_ms)
                         ELSE ExecutionResult(ExitCode(o), 0, 0)

\* execute lines 57-65: the two cleanups, and the return of the result
Cleanup(container_removed, workspace_removed) ==
    /\ rpc = "cleanup"
    /\ container' = cleanup_container(container, container_removed)
    /\ workspace' = cleanup_workspace(workspace, workspace_removed)
    /\ rpc' = "done"
    /\ UNCHANGED <<rlang, container_id, result, execs, leakedDirs, leakedContainers,
                   engineVars, retryVars, storeVars, securityVars>>

\* the caller has the result; what the call left behind stays behind
ExecuteReturn ==
    /\ rpc = "done"
    /\ rpc' = "idle"
    /\ leakedDirs' = leakedDirs + (IF workspace = "exists" THEN 1 ELSE 0)
    /\ leakedContainers' = leakedContainers + (IF container \in {"none", "removed"} THEN 0 ELSE 1)
    /\ UNCHANGED <<rlang, workspace, container, container_id, result, execs, engineVars, retryVars, storeVars, securityVars>>

InitRunnerSpec ==
    /\ InitRuns /\ InitCache /\ InitStats /\ InitClock /\ InitHistory /\ InitRunner
    /\ InitRetry /\ InitStore /\ InitOffered /\ InitSecurity
    /\ enabled = [p \in Providers |-> TRUE]
    /\ priority = [p \in Providers |-> Pos(p)]
    /\ healthy = [p \in Providers |-> TRUE]

NextRunner ==
    \/ \E language \in Languages : ExecuteBegin(language)
    \/ \E o \in StageOutcomes : CreateWorkspace(o)
    \/ \E o \in CreateOutcomes, removed \in BOOLEAN : CreateContainer(o, removed)
    \/ \E o \in RunOutcomes, removed \in BOOLEAN : ExecuteInContainer(o, removed)
    \/ \E cr, wr \in BOOLEAN : Cleanup(cr, wr)
    \/ ExecuteReturn

SpecRunner == InitRunnerSpec /\ [][NextRunner]_vars

(***************************************************************************)
(* groq_provider.py _make_request (lines 73-131).  The loop runs attempt   *)
(* = 0 .. max_retries; every iteration awaits one remote invocation under  *)
(* asyncio.wait_for(timeout), so the call is at an await while the remote  *)
(* side works (qpc = "calling") and while it backs off (qpc = "sleeping"). *)
(* outcomes, waited and slept record, per invocation of the current call,  *)
(* what the await gave, how long it took and the back-off that followed.   *)
(***************************************************************************)
MaxRetryAttempts == 2
MaxRequests == 2
TimeoutSeconds == 30

\* config.retry_attempts is an unconstrained int (base.py line 19)
RetryAttempts == -1 .. MaxRetryAttempts

\* What the remote side does with an invocation, and after how many seconds
RemoteAnswers == {"ok", "rate_limit", "invalid_input"}
RemoteLatencies == {1, TimeoutSeconds + 1}

LLMProviderError(message) == [type |-> "LLMProviderError", message |-> message]
LLMResponse(content) == [type |-> "LLMResponse", content |-> content]

\* asyncio.wait_for (lines 80-93): the answer if it comes before the
\* deadline, TimeoutError at the deadline otherwise
wait_for(answer, latency) ==
    IF latency >= TimeoutSeconds
    THEN [outcome |-> "timeout", elapsed |-> TimeoutSeconds]
    ELSE [outcome |-> answer, elapsed |-> latency]

\* A loop that allows one attempt more than range(max_retries + 1).
last_attempt_late(a, m) == a = m + 1

\* lines 114, 120, 127: if attempt == max_retries
last_attempt(a, m) == a = m

\* lines 124 and 129: the back-off after a failed attempt that is retried
backoff(outcome, a) ==
    CASE outcome = "rate_limit" -> 2 ^ a
      [] outcome = "invalid_input" -> 1
      [] OTHER -> 0

\* the message of the error raised when the last attempt fails
final_error(outcome) ==
    CASE outcome = "timeout" -> LLMProviderError("Groq request timed out")
      [] outcome = "rate_limit" -> LLMProviderError("Groq rate limit exceeded")
      [] OTHER -> LLMProviderError("Groq API error")

\* _make_request is called: lines 73-93 up to the first await, or line 131
\* when range(max_retries + 1) is empty
MakeRequest(m) ==
    /\ qpc \in {"idle", "returned", "raised"}
    /\ requests < MaxRequests
    /\ requests' = requests + 1
    /\ max_retries' = m
    /\ attempt' = 0
    /\ outcomes' = <<>>
    /\ waited' = <<>>
    /\ slept' = <<>>
    /\ IF m + 1 <= 0
       THEN /\ qpc' = "raised"
            /\ qresult' = LLMProviderError("Max retries exceeded")
       ELSE /\ qpc' = "calling"
            /\ qresult' = NoError
    /\ UNCHANGED <<engineVars, runnerVars, storeVars, securityVars>>

\* the await of the remote invocation ends: lines 95-129 up to the next await
Answer(answer, latency) ==
    /\ qpc = "calling"
    /\ LET w == wait_for(answer, latency)
       IN  /\ outcomes' = Append(outcomes, w.outcome)
           /\ waited' = Append(waited, w.elapsed)
           /\ CASE w.outcome = "ok" ->
                    /\ qpc' = "returned"
                    /\ qresult' = LLMResponse("text")
                    /\ UNCHANGED <<attempt, slept>>
                [] w.outcome # "ok" /\ last_attempt(attempt, max_retries) ->
                    /\ qpc' = "raised"
                    /\ qresult' = final_error(w.outcome)
                    /\ UNCHANGED <<attempt, slept>>
                [] w.outcome = "timeout" /\ ~last_attempt(attempt, max_retries) ->
                    \* no sleep: the next iteration invokes at once
                    /\ attempt' = attempt + 1
                    /\ qpc' = "calling"
                    /\ UNCHANGED <<qresult, slept>>
                [] OTHER ->
                    /\ qpc' = "sleeping"
                    /\ slept' = Append(slept, backoff(w.outcome, attempt))
                    /\ UNCHANGED <<attempt, qresult>>
    /\ UNCHANGED <<max_retries, requests, engineVars, runnerVars, storeVars, securityVars>>

\* asyncio.sleep returns: the next iteration of the loop, up to its await
Wake ==
    /\ qpc = "sleeping"
    /\ attempt' = attempt + 1
    /\ qpc' = "calling"
    /\ UNCHANGED <<max_retries, outcomes, waited, slept, qresult, requests,
                   engineVars, runnerVars, storeVars, securityVars>>

InitRetrySpec ==
    /\ InitRuns /\ InitCache /\ InitStats /\ InitClock /\ InitHistory /\ InitRunner
    /\ InitRetry /\ InitStore /\ InitOffered /\ InitSecurity
    /\ enabled = [p \in Providers |-> TRUE]
    /\ priority = [p \in Providers |-> Pos(p)]
    /\ healthy = [p \in Providers |-> TRUE]

NextRetry ==
    \/ \E m \in RetryAttempts : MakeRequest(m)
    \/ \E answer \in RemoteAnswers, latency \in RemoteLatencies : Answer(answer, latency)
    \/ Wake

SpecRetry == InitRetrySpec /\ [][NextRetry]_vars

(***************************************************************************)
(* cache_manager.py driven on its own.  No method of CacheManager reaches  *)
(* the event loop, so within one process every call is one step; the files *)
(* are shared with other threads and processes, and store_script writes    *)
(* its file in place (open(..., "w") truncates, json.dump fills), so a     *)
(* get_script of another reader can fall between the two (StoreOpen,       *)
(* StoreFinish).                                                           *)
(***************************************************************************)
MaxCacheOps == 4

CacheLanguages == {"python", "javascript"}
OptionalKeys == {"language", "cache_ttl"}

\* datetime objects and their ISO 8601 text
datetime(t) == <<"datetime", t>>
isoformat(d) == <<"iso", d[2]>>
fromisoformat(text) == <<"datetime", text[2]>>

\* A script_data dictionary as a caller builds it (the fixture of
\* test_cache_manager.py lines 26-39, the script_info of engine.py lines
\* 88-102), without the keys in missing.
script_data(fp, n, language, missing, t) ==
    LET full == [script_id |-> <<"script", n>>,
                 prompt |-> "print hello",
                 language |-> language,
                 code |-> "print('hello')",
                 fingerprint |-> fp,
                 created_at |-> datetime(t),
                 cache_ttl |-> ShortTTL]
    IN  [k \in DOMAIN full \ missing |-> full[k]]

\* store_script lines 73-76
StampKeys == {"cached_at", "last_accessed_at", "access_count", "cache_hit_count"}
stamp(a, t) ==
    [k \in DOMAIN a \cup StampKeys |->
        CASE k \in {"cached_at", "last_accessed_at"} -> t
          [] k \in {"access_count", "cache_hit_count"} -> 0
          [] OTHER -> a[k]]

\* A clean_data that leaves out the values json cannot write.
clean_data_drop(a) == [k \in DOMAIN a \ {"created_at"} |-> a[k]]

\* clean_data (lines 85-95): every datetime becomes its isoformat text
clean_data(a) ==
    [k \in DOMAIN a |-> IF k = "created_at" THEN isoformat(a[k]) ELSE a[k]]

\* the index entry of lines 102-109
index_entry(d) ==
    [cached_at |-> d.cached_at,
     last_accessed_at |-> d.last_accessed_at,
     access_count |-> 0,
     language |-> d.language,
     size_bytes |-> json_size(d)]

\* A file whose text is no JSON document: the leading part of the document d
\* that store_script is writing (json.dump writes the keys in order, the stamps
\* last), and a file damaged from outside
Truncated(d) ==
    [k \in {"json", "script_id", "fingerprint", "cached_at"} |->
        IF k = "json" THEN "truncated" ELSE d[k]]
Garbage == [json |-> "invalid"]

\* A reader that takes whatever text is in the file for a document.
json_load_lenient(f) == FALSE

\* json.load raises on the file's text (get_script line 43)
json_load_raises(f) == "json" \in DOMAIN f

\* fromisoformat(script_data.get("cached_at", "")) raises (line 298)
is_expired_raises(f) == "cached_at" \notin DOMAIN f

file_of(fp) == IF fp \in DOMAIN files THEN files[fp] ELSE None
entry_of(fp) == IF fp \in DOMAIN metadata THEN metadata[fp] ELSE None

CacheError == [raised |-> "CacheError"]
Returned == [raised |-> "none"]

CacheStep == cops < MaxCacheOps /\ cops' = cops + 1

Unstore(S) == [fp \in Keys |-> IF fp \in S THEN None ELSE stored[fp]]

\* store_script lines 66-98 up to the open of the file for writing
StoreOpen(a, o) ==
    /\ storing.stage = "idle"
    /\ CacheStep
    /\ LET fp == a.fingerprint
       IN  IF o = "open_raises"
           THEN /\ last' = [op |-> "store", fp |-> fp, result |-> CacheError,
                            prev_file |-> file_of(fp), prev_entry |-> entry_of(fp)]
                /\ UNCHANGED <<files, storing, stored>>
           ELSE /\ files' = Put(files, fp, Truncated(clean_data(stamp(a, now))))
                /\ storing' = [stage |-> "open", given |-> a,
                               data |-> clean_data(stamp(a, now)),
                               prev_file |-> file_of(fp), prev_entry |-> entry_of(fp)]
                /\ stored' = Unstore({fp})
                /\ last' = [op |-> "open", fp |-> fp]
    /\ UNCHANGED <<metadata, stats, metadata_file, runVars, last_provider_used, poolVars,
                   envVars, histVars, runnerVars, retryVars, securityVars>>

\* store_script lines 99-118: json.dump, the index entry, _save_metadata
StoreFinish(o) ==
    /\ storing.stage = "open"
    /\ storing' = [stage |-> "idle"]
    /\ LET d == storing.data
           fp == d.fingerprint
           done(r) == [op |-> "store", fp |-> fp, result |-> r,
                       prev_file |-> storing.prev_file,
                       prev_entry |-> storing.prev_entry]
       IN  CASE o = "dump_raises" ->
                  /\ last' = done(CacheError)
                  /\ UNCHANGED <<files, metadata, metadata_file, stored, stats>>
             [] o = "ok" /\ {"language", "prompt"} \subseteq DOMAIN d ->
                  /\ files' = Put(files, fp, d)
                  /\ metadata' = Put(metadata, fp, index_entry(d))
                  /\ metadata_file' = metadata'
                  /\ stats' = store_stats(stats, json_size(d))
                  /\ stored' = [stored EXCEPT ![fp] = [data |-> storing.given,
                                                       at |-> d.cached_at,
                                                       hits |-> 0]]
                  /\ last' = done(Returned)
             [] OTHER ->
                  \* KeyError at line 107 or 108, after the file was written
                  /\ files' = Put(files, fp, d)
                  /\ last' = done(CacheError)
                  /\ UNCHANGED <<metadata, metadata_file, stored, stats>>
    /\ UNCHANGED <<cops, runVars, last_provider_used, poolVars, envVars, histVars,
                   runnerVars, retryVars, securityVars>>

\* What the caller of get_script should get by the cache's contract: the
\* dictionary of the last completed store while its age is within its ttl
Expected(fp) ==
    IF stored[fp] # None /\ now - stored[fp].at <= ttl_seconds(stored[fp].data)
    THEN stored[fp].data
    ELSE None

\* A reader that counts nothing when the file cannot be read.
unreadable_uncounted(s) == s

\* get_script lines 59-64: the except branch counts a miss
unreadable(s) == [s EXCEPT !.misses = @ + 1]

\* get_script (lines 32-64)
Lookup(fp) ==
    /\ CacheStep
    /\ LET during == storing.stage = "open" /\ storing.data.fingerprint = fp
           done(r, path) == [op |-> "get", fp |-> fp, result |-> r, path |-> path,
                             during |-> during, expect |-> Expected(fp),
                             counted |-> FALSE]
       IN  IF fp \notin DOMAIN files
           THEN /\ stats' = [stats EXCEPT !.misses = @ + 1]
                /\ last' = done(None, "absent")
                /\ UNCHANGED <<files, metadata, metadata_file, stored>>
           ELSE IF json_load_raises(files[fp]) \/ is_expired_raises(files[fp])
           THEN \* lines 59-64
                /\ stats' = unreadable(stats)
                /\ last' = done(None, "unreadable")
                /\ UNCHANGED <<files, metadata, metadata_file, stored>>
           ELSE IF is_expired(files[fp], now)
           THEN \* lines 46-49; _evict_script does not save the index
                /\ files' = evict_files(files, fp)
                /\ metadata' = evict_meta(metadata, fp)
                /\ stats' = [evict_stats(stats, metadata, fp) EXCEPT !.misses = @ + 1]
                /\ stored' = Unstore({fp})
                /\ last' = done(None, "expired")
                /\ UNCHANGED metadata_file
           ELSE \* lines 51-57
                LET script == Put(files[fp], "last_accessed_at", now)
                IN  /\ metadata' = update_script_metadata(metadata, fp, script, now)
                    /\ metadata_file' = IF fp \in DOMAIN metadata THEN metadata'
                                        ELSE metadata_file
                    /\ stats' = [stats EXCEPT !.hits = @ + 1]
                    /\ last' = done(script, "hit")
                    /\ stored' = IF stored[fp] = None THEN stored
                                 ELSE [stored EXCEPT ![fp].hits = @ + 1]
                    /\ UNCHANGED files
    /\ UNCHANGED <<storing, runVars, last_provider_used, poolVars, envVars, histVars,
                   runnerVars, retryVars, securityVars>>

\* The engine's call after a hit (engine.py line 136): increment_cache_hit
\* with the script_id of the dictionary get_script returned
IncrementCacheHit ==
    /\ last.op = "get" /\ last.result # None /\ ~last.counted
    /\ last' = [last EXCEPT !.counted = TRUE]
    /\ metadata' = increment_cache_hit(metadata, last.result.script_id, now)
    /\ metadata_file' = IF MetaWithScriptId(metadata, last.result.script_id) = {}
                        THEN metadata_file ELSE metadata'
    /\ UNCHANGED <<files, stats, storing, cops, stored, runVars, last_provider_used,
                   poolVars, envVars, histVars, runnerVars, retryVars, securityVars>>

\* A clear that takes every indexed fingerprint whatever the criteria.
fingerprints_to_remove_all(criteria) == DOMAIN metadata

\* clear_scripts lines 200-237: the fingerprints it will remove
fingerprints_to_remove(criteria) ==
    IF criteria = "all"
    THEN DOMAIN metadata
    ELSE {fp \in DOMAIN metadata :
            /\ fp \in DOMAIN files
            /\ ~json_load_raises(files[fp])
            /\ "language" \in DOMAIN files[fp]
            /\ files[fp].language = criteria}

\* clear_scripts(all_scripts=True) and clear_scripts(language=L)
Clear(criteria) ==
    /\ storing.stage = "idle"
    /\ CacheStep
    /\ LET gone == fingerprints_to_remove(criteria)
       IN  /\ files' = [fp \in DOMAIN files \ gone |-> files[fp]]
           /\ metadata' = [fp \in DOMAIN metadata \ gone |-> metadata[fp]]
           /\ metadata_file' = metadata'
           /\ stats' = clear_stats(stats, metadata, gone)
           /\ stored' = Unstore(gone)
           /\ last' = [op |-> "clear", criteria |-> criteria,
                       cleared_count |-> Cardinality(gone)]
    /\ UNCHANGED <<storing, runVars, last_provider_used, poolVars, envVars, histVars,
                   runnerVars, retryVars, securityVars>>

\* The text of an artifact file is damaged from outside the program
Corrupt(fp) ==
    /\ storing.stage = "idle"
    /\ CacheStep
    /\ fp \in DOMAIN files /\ ~json_load_raises(files[fp])
    /\ files' = Put(files, fp, Garbage)
    /\ stored' = Unstore({fp})
    /\ last' = [op |-> "corrupt", fp |-> fp]
    /\ UNCHANGED <<metadata, metadata_file, stats, storing, runVars,
                   last_provider_used, poolVars, envVars, histVars, runnerVars, retryVars, securityVars>>

\* A new CacheManager on the same directory: __init__ and _load_metadata
Reopen ==
    /\ storing.stage = "idle"
    /\ CacheStep
    /\ metadata' = metadata_file
    /\ stats' = [hits |-> 0, misses |-> 0, evictions |-> 0, total_size_bytes |-> 0]
    /\ last' = [op |-> "reopen"]
    /\ UNCHANGED <<files, metadata_file, storing, stored, runVars, last_provider_used,
                   poolVars, envVars, histVars, runnerVars, retryVars, securityVars>>

\* list_scripts(language=L) (lines 146-175), as a set, and the entry count
\* of get_cache_stats (line 332)
list_scripts(language) ==
    {files[fp] : fp \in {x \in DOMAIN metadata \cap DOMAIN files :
                            /\ ~json_load_raises(files[x])
                            /\ "language" \in DOMAIN files[x]
                            /\ files[x].language = language}}
total_scripts == Cardinality(DOMAIN metadata)

StoreInputs ==
    {script_data(fp, cops, l, m, now) :
        fp \in Keys, l \in CacheLanguages, m \in SUBSET OptionalKeys}

InitCacheSpec ==
    /\ InitRuns /\ InitCache /\ InitStats /\ InitClock /\ InitHistory /\ InitRunner
    /\ InitRetry /\ InitStore /\ InitOffered /\ InitSecurity
    /\ enabled = [p \in Providers |-> TRUE]
    /\ priority = [p \in Providers |-> Pos(p)]
    /\ healthy = [p \in Providers |-> TRUE]

NextCache ==
    \/ \E a \in StoreInputs, o \in {"ok", "open_raises"} : StoreOpen(a, o)
    \/ \E o \in {"ok", "dump_raises"} : StoreFinish(o)
    \/ \E fp \in Keys : Lookup(fp)
    \/ IncrementCacheHit
    \/ \E criteria \in {"all"} \cup CacheLanguages : Clear(criteria)
    \/ \E fp \in Keys : Corrupt(fp)
    \/ Reopen
    \/ \E d \in TickSteps : Tick(d)

SpecCache == InitCacheSpec /\ [][NextCache]_vars

(***************************************************************************)
(* Listing: CacheManager.list_scripts and CapibaraClient.list_scripts.     *)
(* self.metadata is a Python dict: it is walked in the order in which its  *)
(* keys were first inserted, and storing again under a key keeps the key's *)
(* place.  The index is therefore a sequence here, an entry being the      *)
(* fingerprint with the document of its artifact file, or None when the    *)
(* file is missing.  A prompt is the sequence of its words.                *)
(***************************************************************************)
ListTimes == {1, 2, 3}
ListKeys == <<"k1", "k2", "k3">>
NoFilter == ""

\* str.lower() on the words used here
lower(w) == CASE w = "Hello" -> "hello" [] w = "Python" -> "python" [] OTHER -> w

\* search.lower() in prompt.lower() (line 163), for a search of one word
contains(prompt, search) == \E i \in DOMAIN prompt : lower(prompt[i]) = lower(search)

\* A document as store_script wrote it for the engine's script_info
\* (engine.py lines 88-102, cache_manager.py lines 73-76), and one stored by
\* another caller that also gave updated_at.
listed_doc(fp, t, language, prompt, extra) ==
    LET d == [script_id |-> <<"script", t>>, prompt |-> prompt, language |-> language,
              fingerprint |-> fp, created_at |-> t, cached_at |-> t,
              last_accessed_at |-> t, access_count |-> 0, updated_at |-> t]
    IN  [k \in DOMAIN d \ (IF extra THEN {} ELSE {"updated_at"}) |-> d[k]]

ListPrompts == {<<"print", "Hello">>, <<"sum", "numbers">>}

\* the indexes listed: three fingerprints in the order of their first store,
\* each stored (again) at a time of its own
ListIndexes ==
    {[i \in 1 .. 3 |->
        [fingerprint |-> ListKeys[i],
         file |-> IF i \in missing THEN None
                  ELSE listed_doc(ListKeys[i], times[i], languages[i], prompts[i], extra)]] :
        times \in {t \in [1 .. 3 -> ListTimes] : \A i, j \in 1 .. 3 : i # j => t[i] # t[j]},
        languages \in {<<"python", "javascript", "python">>},
        prompts \in {<<(<<"print", "Hello">>), (<<"print", "Hello">>), (<<"sum", "numbers">>)>>},
        missing \in {{}, {2}},
        extra \in BOOLEAN}

ListRequests ==
    [limit : {1, 50}, offset : {0, 1}, language : {NoFilter, "python"},
     search : {NoFilter, "hello"},
     sort_by : {"created_at", "cached_at", "size"},
     sort_order : {"asc", "desc"}]

\* list.sort(key=..., reverse=...) (lines 178-184): Python's sort is stable,
\* also with reverse=True
sorted_by(scripts, keys, reverse) ==
    LET before(j, i) ==
            \/ (IF reverse THEN keys[j] > keys[i] ELSE keys[j] < keys[i])
            \/ (keys[j] = keys[i] /\ j < i)
        rank(i) == Cardinality({j \in DOMAIN scripts : before(j, i)}) + 1
    IN  [p \in DOMAIN scripts |-> scripts[CHOOSE i \in DOMAIN scripts : rank(i) = p]]

\* scripts[offset : offset + limit] (line 187)
slice(scripts, offset, limit) ==
    SubSeq(scripts, offset + 1,
           IF offset + limit < Len(scripts) THEN offset + limit ELSE Len(scripts))

\* lines 148-175: the documents of the entries that pass the filters, in the
\* order of the index
matching(index, q) ==
    LET keep(e) ==
            /\ e.file # None
            /\ (q.language # NoFilter => e.file.language = q.language)
            /\ (q.search # NoFilter => contains(e.file.prompt, q.search))
        kept == SelectSeq(index, keep)
    IN  [i \in DOMAIN kept |-> kept[i].file]

\* CacheManager.list_scripts (lines 136-187): a sort_by other than cached_at,
\* last_accessed_at and access_count leaves the order of the index
cache_list_scripts(index, q) ==
    LET scripts == matching(index, q)
        reverse == q.sort_order = "desc"
        key(f) == [i \in DOMAIN scripts |-> scripts[i][f]]
        ordered == IF q.sort_by \in {"cached_at", "last_accessed_at", "access_count"}
                   THEN sorted_by(scripts, key(q.sort_by), reverse)
                   ELSE scripts
    IN  slice(ordered, q.offset, q.limit)

\* ListRequest.validate_sort_by (requests.py lines 45-51)
valid_sort_by == {"created_at", "updated_at", "execution_count", "prompt_length"}

\* CapibaraClient.list_scripts (client.py lines 138-195): the request is
\* validated, the cache is listed, and each document is made a ScriptInfo,
\* which reads script_data["updated_at"]
client_list_scripts(index, q) ==
    IF q.sort_by \notin valid_sort_by
    THEN [raised |-> "ValueError", scripts |-> <<>>]
    ELSE LET scripts == cache_list_scripts(index, q)
         IN  IF \E i \in DOMAIN scripts : "updated_at" \notin DOMAIN scripts[i]
             THEN [raised |-> "KeyError", scripts |-> <<>>]
             ELSE [raised |-> "none", scripts |-> scripts]

\* cache_manager.list_scripts called on its own, and through the client; the
\* index stays as it is
List(q) ==
    /\ last' = [op |-> "list", index |-> last.index, request |-> q,
                result |-> [raised |-> "none",
                            scripts |-> cache_list_scripts(last.index, q)]]
    /\ UNCHANGED <<files, metadata, stats, metadata_file, storing, cops, stored, runVars,
                   last_provider_used, poolVars, envVars, histVars, runnerVars, retryVars,
                   securityVars>>

ClientList(q) ==
    /\ last' = [op |-> "client_list", index |-> last.index, request |-> q,
                result |-> client_list_scripts(last.index, q)]
    /\ UNCHANGED <<files, metadata, stats, metadata_file, storing, cops, stored, runVars,
                   last_provider_used, poolVars, envVars, histVars, runnerVars, retryVars,
                   securityVars>>

\* a CacheManager whose index and files are one of ListIndexes
InitList ==
    /\ InitRuns /\ InitCache /\ InitStats /\ InitClock /\ InitHistory /\ InitRunner
    /\ InitRetry /\ InitOffered /\ InitSecurity
    /\ metadata_file = Empty
    /\ storing = [stage |-> "idle"]
    /\ last \in {[op |-> "none", index |-> index] : index \in ListIndexes}
    /\ cops = 0
    /\ stored = [fp \in Keys |-> None]
    /\ enabled = [p \in Providers |-> TRUE]
    /\ priority = [p \in Providers |-> Pos(p)]
    /\ healthy = [p \in Providers |-> TRUE]

NextList ==
    \/ \E q \in ListRequests : List(q)
    \/ \E q \in ListRequests : ClientList(q)

SpecList == InitList /\ [][NextList]_vars

(***************************************************************************)
(* ASTScanner.scan as a step: any of the texts, scanned as any of the four *)
(* languages, under a policy or under none.                                *)
(***************************************************************************)
ScanPolicies ==
    {None, strict_policy, moderate_policy, permissive_policy, basic_policy, test_policy,
     allow_os_policy, broken_policy}

Scan(code, language, policy) ==
    /\ scanned' = [op |-> "scan", code |-> code, language |-> language,
                   policy |-> policy, result |-> ASTScanner_scan(code, language, policy)]
    /\ UNCHANGED <<policies, default_policy, fetched, engineVars, runnerVars, retryVars,
                   storeVars>>

InitScanSpec ==
    /\ InitRuns /\ InitCache /\ InitStats /\ InitClock /\ InitHistory /\ InitRunner
    /\ InitRetry /\ InitStore /\ InitOffered /\ InitSecurity
    /\ enabled = [p \in Providers |-> TRUE]
    /\ priority = [p \in Providers |-> Pos(p)]
    /\ healthy = [p \in Providers |-> TRUE]

NextScan ==
    \E code \in Codes, language \in Languages, policy \in ScanPolicies :
        Scan(code, language, policy)

SpecScan == InitScanSpec /\ [][NextScan]_vars

(***************************************************************************)
(* PolicyManager: add_policy, remove_policy, set_default_policy and        *)
(* get_policy as steps.                                                    *)
(***************************************************************************)
CustomPolicies == {test_policy, allow_os_policy}

PolicyNames ==
    {NoPolicyName, "", "strict", "moderate", "permissive", "test_policy", "allow_os",
     "unknown"}

\* add_policy (lines 41-44)
AddPolicy(policy) ==
    /\ policies' = Put(policies, policy.name, policy)
    /\ fetched' = [op |-> "add", name |-> policy.name]
    /\ UNCHANGED <<scanned, default_policy, engineVars, runnerVars, retryVars, storeVars>>

\* remove_policy (lines 46-50); the default policy is not touched
RemovePolicy(policy_name) ==
    /\ policies' = IF policy_name \in DOMAIN policies THEN Del(policies, policy_name)
                   ELSE policies
    /\ fetched' = [op |-> "remove", name |-> policy_name]
    /\ UNCHANGED <<scanned, default_policy, engineVars, runnerVars, retryVars, storeVars>>

\* set_default_policy (lines 56-62): ValueError for a name that is not
\* registered
SetDefaultPolicy(policy_name) ==
    /\ default_policy' = IF policy_name \in DOMAIN policies THEN policies[policy_name]
                         ELSE default_policy
    /\ fetched' = [op |-> "set_default", name |-> policy_name,
                   raised |-> policy_name \notin DOMAIN policies]
    /\ UNCHANGED <<scanned, policies, engineVars, runnerVars, retryVars, storeVars>>

GetPolicy(policy_name) ==
    /\ fetched' = [op |-> "get", name |-> policy_name,
                   result |-> get_policy(policies, default_policy, policy_name)]
    /\ UNCHANGED <<scanned, policies, default_policy, engineVars, runnerVars, retryVars,
                   storeVars>>

InitPolicySpec ==
    /\ InitRuns /\ InitCache /\ InitStats /\ InitClock /\ InitHistory /\ InitRunner
    /\ InitRetry /\ InitStore /\ InitOffered /\ InitSecurity
    /\ enabled = [p \in Providers |-> TRUE]
    /\ priority = [p \in Providers |-> Pos(p)]
    /\ healthy = [p \in Providers |-> TRUE]

NextPolicy ==
    \/ \E policy \in CustomPolicies : AddPolicy(policy)
    \/ \E policy_name \in PolicyNames \ {NoPolicyName, ""} : RemovePolicy(policy_name)
    \/ \E policy_name \in PolicyNames \ {NoPolicyName, ""} : SetDefaultPolicy(policy_name)
    \/ \E policy_name \in PolicyNames : GetPolicy(policy_name)

SpecPolicy == InitPolicySpec /\ [][NextPolicy]_vars

(***************************************************************************)
(* The run pipeline with requests that carry inputs: one prompt, no        *)
(* preferred provider, no execution, and a context with an inputs list.    *)
(***************************************************************************)
InitInputs ==
    /\ InitRuns /\ InitCache /\ InitStats /\ InitClock /\ InitHistory /\ InitRunner
    /\ InitRetry /\ InitStore /\ InitSecurity
    /\ offered = {q \in RunRequest :
                    /\ q.prompt = "p1" /\ q.llm_provider = NoProvider /\ ~q.execute
                    /\ q.cache_ttl = DefaultTTL /\ q.context # NoContext}
    /\ enabled = [p \in Providers |-> TRUE]
    /\ priority = [p \in Providers |-> Pos(p)]
    /\ healthy = [p \in Providers |-> TRUE]

SpecInputs == InitInputs /\ [][Next]_vars

(***************************************************************************)
(* The run pipeline with requests that give a cache_ttl: one prompt, no    *)
(* preferred provider, no context, no execution.                           *)
(***************************************************************************)
InitTTL ==
    /\ InitRuns /\ InitCache /\ InitStats /\ InitClock /\ InitHistory /\ InitRunner
    /\ InitRetry /\ InitStore /\ InitSecurity
    /\ offered = {q \in RunRequest :
                    /\ q.prompt = "p1" /\ q.llm_provider = NoProvider /\ ~q.execute
                    /\ q.context = NoContext}
    /\ enabled = [p \in Providers |-> TRUE]
    /\ priority = [p \in Providers |-> Pos(p)]
    /\ healthy = [p \in Providers |-> TRUE]

SpecTTL == InitTTL /\ [][Next]_vars

(***************************************************************************)
(* The run pipeline with runs that can be cancelled: one prompt, no        *)
(* preferred provider, no context, with and without execution.             *)
(***************************************************************************)
InitCancel ==
    /\ InitRuns /\ InitCache /\ InitStats /\ InitClock /\ InitHistory /\ InitRunner
    /\ InitRetry /\ InitStore /\ InitSecurity
    /\ offered = {q \in RunRequest :
                    /\ q.prompt = "p1" /\ q.llm_provider = NoProvider
                    /\ q.cache_ttl = DefaultTTL /\ q.context = NoContext}
    /\ enabled = [p \in Providers |-> TRUE]
    /\ priority = [p \in Providers |-> Pos(p)]
    /\ healthy \in [Providers -> BOOLEAN]

NextCancel ==
    \/ Next
    \/ \E r \in Runs : Cancel(r)
    \/ \E r \in Runs, code \in CodeBodies : Interrupted(r, code)

SpecCancel == InitCancel /\ [][NextCancel]_vars

(***************************************************************************)
(* engine.py _execute_script and _modify_code_for_execution: what the      *)
(* sandbox is given.  A code is the sequence of its pieces: plain text, a  *)
(* parenthesised or bracketed list of literals, or a call name(literals);  *)
(* a literal is its text.  The regular expressions of _modify_python_code  *)
(* match the pieces whose literals are all numbers written with digits.    *)
(***************************************************************************)
CodeText(t) == [kind |-> "text", text |-> t, items |-> <<>>]
TupleLit(items) == [kind |-> "tuple", text |-> "", items |-> items]
ListLit(items) == [kind |-> "list", text |-> "", items |-> items]
CallOf(name, items) == [kind |-> "call", text |-> name, items |-> items]

\* The first is the code of test_engine.py lines 248-249.
ExecCodes ==
    {<<CodeText("def calculate(a, b, c): return "), TupleLit(<<"1.0", "2.0", "3.0">>)>>,
     <<CodeText("print("), CallOf("add", <<"1", "2">>), CodeText(")")>>,
     <<CodeText("xs = "), ListLit(<<"1", "2", "3">>), CodeText("; pair = "),
       TupleLit(<<"4", "5">>)>>,
     <<CodeText("print('hi')")>>,
     <<CodeText("a = "), TupleLit(<<"1", "2", "3">>), CodeText("; b = "),
       TupleLit(<<"1", "2", "3">>)>>,
     <<CodeText("result = "), CallOf("main", <<"1", "2", "3">>)>>,
     <<CodeText("p = "), TupleLit(<<"4", "5">>), CodeText("; t = "),
       TupleLit(<<"1", "2", "3">>)>>,
     <<CodeText("xs = "), ListLit(<<"4", "5">>)>>}

ExecInputs ==
    InputLists \cup
    {<<>>,
     <<PyValue("int", "5"), PyValue("int", "7"), PyValue("int", "99")>>,
     <<PyValue("str", "1.0"), PyValue("str", "2.50"), PyValue("str", "007")>>,
     <<PyValue("str", "a"), PyValue("int", "1"), PyValue("int", "2")>>,
     <<PyValue("int", "1"), PyValue("int", "2"), PyValue("int", "5"), PyValue("int", "7")>>}

ExecRequests ==
    [language : {"python", "Python", "javascript"},
     context : {NoContext} \cup {Put(Empty, "inputs", l) : l \in ExecInputs}]

\* str(float(text)) and str(int(text)) of the texts used here; the other
\* texts raise ValueError
FloatTexts == {"1.0", "2.50"}
IntTexts == NumericText \cup {"007"}
str_float(text) == IF text = "2.50" THEN "2.5" ELSE text
str_int(text) == IF text = "007" THEN "7" ELSE text
has_dot(text) == text \in FloatTexts

\* _modify_python_code lines 237-250: the Python literal of one input
python_literal(val) ==
    IF val.py = "str"
    THEN IF has_dot(val.text)
         THEN (IF val.text \in FloatTexts THEN str_float(val.text)
               ELSE "\"" \o val.text \o "\"")
         ELSE (IF val.text \in IntTexts THEN str_int(val.text)
               ELSE "\"" \o val.text \o "\"")
    ELSE val.text

\* the literals that \d+\.?\d* matches in full
NumberLiterals == {"1", "2", "3", "4", "5", "7", "99", "100", "1.0", "2.0", "3.0", "2.5"}

\* one of input_patterns (lines 254-259) matches the piece: n numbers in
\* parentheses, which the arguments of a call are too, or in brackets
matches_pattern(piece, brackets, n) ==
    /\ piece.kind \in (IF brackets THEN {"list"} ELSE {"tuple", "call"})
    /\ Len(piece.items) = n
    /\ \A i \in DOMAIN piece.items : piece.items[i] \in NumberLiterals

\* lines 262-271 for one pattern: the first match is replaced by the
\* parenthesised inputs
replace_first(code, brackets, n, replacement) ==
    LET found == {i \in DOMAIN code : matches_pattern(code[i], brackets, n)}
    IN  IF found = {}
        THEN code
        ELSE LET first == CHOOSE i \in found : \A j \in found : i <= j
             IN  [code EXCEPT ![first] =
                     IF @.kind = "call" THEN CallOf(@.text, replacement)
                     ELSE TupleLit(replacement)]

\* _modify_python_code (lines 232-285).  The last pass (lines 273-283)
\* searches for the function name followed at once by the numbers, the
\* parentheses of its pattern being a group, which no code here contains.
modify_python_code(code, inputs) ==
    LET python_inputs == [i \in DOMAIN inputs |-> python_literal(inputs[i])]
        replacement == IF Len(python_inputs) >= 3 THEN SubSeq(python_inputs, 1, 3)
                       ELSE python_inputs
    IN  IF Len(python_inputs) >= 2
        THEN replace_first(
                 replace_first(
                     replace_first(
                         replace_first(code, FALSE, 3, replacement),
                         TRUE, 3, replacement),
                     FALSE, 2, replacement),
                 TRUE, 2, replacement)
        ELSE code

\* _modify_code_for_execution (lines 217-230)
modify_code_for_execution(code, q) ==
    IF q.context = NoContext \/ "inputs" \notin DOMAIN q.context THEN code
    ELSE IF Len(q.context["inputs"]) = 0 THEN code
    ELSE IF lower(q.language) = "python" THEN modify_python_code(code, q.context["inputs"])
    ELSE code

\* _execute_script (lines 158-179) called with the code that ast_scanner.scan
\* was given (lines 66-78 and 110), or with the code of the cached artifact
\* (line 141), which was scanned before it was stored: the code that
\* container_runner.execute receives
ExecuteScript(path, q) ==
    /\ last.op = "none"
    /\ last' = [op |-> "execute", path |-> path, code |-> last.code, request |-> q,
                scanned |-> last.code,
                sandbox |-> modify_code_for_execution(last.code, q)]
    /\ UNCHANGED <<engineVars, runnerVars, retryVars, metadata_file, storing, cops, stored,
                   securityVars>>

ExecuteGenerated(q) == ExecuteScript("miss", q)
ExecuteCached(q) == ExecuteScript("hit", q)

InitExec ==
    /\ InitRuns /\ InitCache /\ InitStats /\ InitClock /\ InitHistory /\ InitRunner
    /\ InitRetry /\ InitSecurity /\ InitOffered
    /\ enabled = [p \in Providers |-> TRUE]
    /\ priority = [p \in Providers |-> Pos(p)]
    /\ healthy = [p \in Providers |-> TRUE]
    /\ metadata_file = Empty
    /\ storing = [stage |-> "idle"]
    /\ cops = 0
    /\ stored = [fp \in Keys |-> None]
    /\ last \in {[op |-> "none", code |-> code] : code \in ExecCodes}

NextExec ==
    \/ \E q \in ExecRequests : ExecuteGenerated(q)
    \/ \E q \in ExecRequests : ExecuteCached(q)

SpecExec == InitExec /\ [][NextExec]_vars

(***************************************************************************)
(* CapibaraClient.show_script next to the run pipeline: one prompt, no     *)
(* preferred provider, no context, no execution.  The script_id given is   *)
(* one that a run can have returned, one that no run returns, or the       *)
(* fingerprint of a request.                                               *)
(***************************************************************************)
MaxShows == 2

ShowIds ==
    {generate_script_id(t) : t \in {0} \cup TickSteps}
        \cup {<<"script", 0, "unknown">>} \cup Fingerprints

\* cache_dir / f"{fingerprint}.json" exists (cache_manager.py lines 34-36):
\* the files of the cache are named by fingerprints, 64 hexadecimal digits,
\* and a script_id begins with script_
script_file_exists(fs, name) == name[1] = "sha256" /\ name \in DOMAIN fs

ScriptNotFound == [raised |-> "ValueError", message |-> "Script not found"]
KeyError(key) == [raised |-> "KeyError", message |-> key]

\* show_script (client.py lines 197-233) with get_script (cache_manager.py
\* lines 32-64) called with the script_id.  The documents the engine stores
\* have no updated_at key.
Show(id) ==
    /\ cops < MaxShows
    /\ cops' = cops + 1
    /\ LET done(found, raised, doc) ==
               [op |-> "show", script_id |-> id, found |-> found, raised |-> raised,
                script |-> doc]
       IN  IF ~script_file_exists(files, id)
           THEN \* get_script lines 36-39, show_script lines 209-210
                /\ stats' = [stats EXCEPT !.misses = @ + 1]
                /\ last' = done(FALSE, ScriptNotFound, None)
                /\ UNCHANGED <<files, metadata, writer>>
           ELSE IF is_expired(files[id], now)
           THEN \* get_script lines 46-49, show_script lines 209-210
                /\ files' = evict_files(files, id)
                /\ metadata' = evict_meta(metadata, id)
                /\ stats' = [evict_stats(stats, metadata, id) EXCEPT !.misses = @ + 1]
                /\ writer' = [writer EXCEPT ![id] = 0]
                /\ last' = done(FALSE, ScriptNotFound, None)
           ELSE \* get_script lines 51-57, show_script lines 213-233
                /\ stats' = [stats EXCEPT !.hits = @ + 1]
                /\ metadata' = update_script_metadata(metadata, id, files[id], now)
                /\ UNCHANGED <<files, writer>>
                /\ last' = IF "updated_at" \in DOMAIN files[id]
                           THEN done(TRUE, [raised |-> "none", message |-> ""],
                                     [script_id |-> files[id].script_id,
                                      code |-> files[id].code])
                           ELSE done(FALSE, KeyError("updated_at"), None)
    /\ UNCHANGED <<runVars, last_provider_used, poolVars, envVars, after, steady>>
    /\ UNCHANGED <<runnerVars, retryVars, metadata_file, storing, stored, securityVars>>

InitShow ==
    /\ InitRuns /\ InitCache /\ InitStats /\ InitClock /\ InitHistory /\ InitRunner
    /\ InitRetry /\ InitStore /\ InitSecurity
    /\ offered = {q \in RunRequest :
                    /\ q.prompt = "p1" /\ q.llm_provider = NoProvider /\ ~q.execute
                    /\ q.cache_ttl = DefaultTTL /\ q.context = NoContext}
    /\ enabled = [p \in Providers |-> TRUE]
    /\ priority = [p \in Providers |-> Pos(p)]
    /\ healthy = [p \in Providers |-> TRUE]

NextShow ==
    \/ Next
    \/ \E id \in ShowIds : Show(id)

SpecShow == InitShow /\ [][NextShow]_vars

(***************************************************************************)
(* Statements about the run pipeline, checked under Spec.                  *)
(***************************************************************************)
FingerprintOf(r) == generate_fingerprint(req[r])
Generated(r) == pc[r] = "responded" /\ ~resp[r].cached

\* C1: of the runs in flight with the same fingerprint that all missed the
\* cache, at most one has a provider generate_code call: never two such runs
\* inside generate_code at once.
C1_AtMostOneGeneration ==
    \A r1, r2 \in Runs :
        (r1 # r2 /\ pc[r1] = "generating" /\ pc[r2] = "generating")
            => FingerprintOf(r1) # FingerprintOf(r2)

\* C2: a run whose scan did not pass ends with SecurityError carrying the
\* violations (one of severity error among them), has no response, and has
\* stored nothing: whatever file is under its fingerprint was written by the
\* store of another run, and with no such store the fingerprint is a miss.
C2_RejectedNeverStored ==
    \A r \in Runs :
        pc[r] = "rejected" =>
            /\ err[r].type = "SecurityError"
            /\ \E v \in err[r].violations : v.severity = "error"
            /\ resp[r] = NoResponse
            /\ writer[FingerprintOf(r)] # r
            /\ FingerprintOf(r) \in DOMAIN files => writer[FingerprintOf(r)] \in Runs \ {r}

C2_Witness ==
    \E r \in Runs : pc[r] = "rejected" /\ FingerprintOf(r) \notin DOMAIN files

\* C4: when run r2 looks its fingerprint up while the artifact stored by the
\* earlier run r1 is still there (not cleared, not replaced, its age at most
\* the time to live), r1 answered cached = false, r2 answers cached = true
\* with r1's script_id, and the hit counter is at least 1.
C4_SecondRunCached ==
    \A r1, r2 \in Runs :
        (r1 # r2 /\ after[r2] = r1) =>
            /\ Generated(r1)
            /\ pc[r2] = "responded"
            /\ resp[r2].cached
            /\ resp[r2].script_id = resp[r1].script_id
            /\ stats.hits >= 1

C4_Witness ==
    \E r1, r2 \in Runs :
        /\ r1 # r2 /\ after[r2] = r1 /\ req[r1] = req[r2]
        /\ resp[r2].cached /\ now = DefaultTTL

\* C5: the provider named in a response with cached = false, and in the
\* artifact that run stored, is the provider whose generate_code produced the
\* run's code.
C5_ProviderIsGenerator ==
    \A r \in Runs :
        Generated(r) =>
            /\ resp[r].llm_provider = provider[r]
            /\ writer[FingerprintOf(r)] = r => files[FingerprintOf(r)].llm_provider = provider[r]

\* C8: after the only run so far, in which A (priority 1) was probed
\* unhealthy and B (priority 2) generated the code, the response names B,
\* A.failures >= 1 and B.successes = 1.
C8_FallbackCounters ==
    \A r \in Runs :
        (/\ Generated(r)
         /\ \A r2 \in Runs \ {r} : pc[r2] = "idle"
         /\ provider[r] = "B" /\ ~health_status["A"]
         /\ priority["A"] = 1 /\ priority["B"] = 2)
            => /\ resp[r].llm_provider = "B"
               /\ provider_stats["A"].failures >= 1
               /\ provider_stats["B"].successes = 1

\* C9: a run does not fail on a generate_code failure of the selected provider
\* while another enabled provider is healthy (it fails over to that one).
C9_FailsOver ==
    [][\A r \in Runs :
          (/\ pc[r] = "generating" /\ pc'[r] = "failed"
           /\ err'[r] = ScriptGenerationError("LLMProviderError"))
              => ~\E p \in Providers \ {provider[r]} : enabled[p] /\ healthy[p]]_vars

\* C10: a run that fails because get_provider found no healthy enabled
\* provider fails with the error kind NoAvailableProvidersError, which is not
\* the kind of a generation failure.
C10_NoProvidersKind ==
    \A r \in Runs :
        (pc[r] = "failed" /\ gp[r].kind = "raise")
            => /\ err[r].type = "NoAvailableProvidersError"
               /\ err[r].type # ScriptGenerationError("LLMProviderError").type

(***************************************************************************)
(* Statements about get_provider, checked under SpecPool.                  *)
(***************************************************************************)
PreferredOf(c) == gp[c].preferred
HealthyEnabled == {p \in Providers : enabled[p] /\ healthy[p]}
PreferredUsable(c) == PreferredOf(c) \in HealthyEnabled

\* C6: a get_provider call during which no provider's health changed returns
\* the preferred provider when that one is enabled and healthy; otherwise,
\* when some enabled provider is healthy, it does not fail and returns an
\* enabled healthy provider.
C6_Selection ==
    \A c \in Runs :
        steady[c] =>
            /\ (pc[c] = "returned" /\ PreferredUsable(c)) => provider[c] = PreferredOf(c)
            /\ pc[c] = "returned" => provider[c] \in HealthyEnabled
            /\ pc[c] = "raised" => HealthyEnabled = {}

\* C7: a provider that was marked unhealthy and is healthy again is probed
\* again: a get_provider call during which no provider's health changed and
\* that goes through the priority loop returns a provider of the lowest
\* priority number among the enabled healthy providers.
C7_RecoveredSelected ==
    \A c \in Runs :
        (steady[c] /\ pc[c] = "returned" /\ gp[c].stage = "loop")
            => \A q \in HealthyEnabled : priority[provider[c]] <= priority[q]

(***************************************************************************)
(* Statements about ContainerRunner.execute, checked under SpecRunner.     *)
(***************************************************************************)
\* C3: when an execute call ends, on whatever path, the container it created
\* has been removed and the staging directory it created has been deleted.
C3_NothingLeftBehind ==
    rpc = "done" => workspace # "exists" /\ container \in {"none", "removed"}

\* C22: every report execute returns has success true exactly when its exit
\* code is 0 and it lists no exceeded resource limit; this covers the reports
\* of the timeout path and of the error path.
C22_SuccessIffCleanExit ==
    rpc = "done" =>
        (result.success <=> (result.exit_code = 0 /\ result.resource_limits_exceeded = {}))

\* a report of the timeout path that also lists an exceeded limit
C22_Witness ==
    /\ rpc = "done" /\ result.exit_code = 124 /\ ~result.success
    /\ result.resource_limits_exceeded # {}

\* C23: when the wait for the container runs into the wall-clock limit, the
\* report of the call has exit code 124 and success false.
C23_TimeoutReported ==
    [][\A o \in RunOutcomes, removed \in BOOLEAN :
          (o.get = "ok" /\ o.wait = "timeout" /\ ExecuteInContainer(o, removed))
              => (result'.ran /\ result'.exit_code = 124 /\ ~result'.success)]_vars

(***************************************************************************)
(* Statements about GroqProvider._make_request, checked under SpecRetry.   *)
(***************************************************************************)
Invocations == Len(outcomes) + (IF qpc = "calling" THEN 1 ELSE 0)
Finished == qpc \in {"returned", "raised"}

\* C11: a _make_request call makes at most max_retries + 1 remote
\* invocations, none of them awaited longer than the deadline; once
\* max_retries + 1 invocations have been answered the call has ended; it ends
\* with a response or with LLMProviderError, and with LLMProviderError when
\* every invocation timed out.
C11_BoundedAttempts ==
    /\ Invocations <= max_retries + 1
    /\ \A i \in DOMAIN waited : waited[i] <= TimeoutSeconds
    /\ Len(outcomes) >= max_retries + 1 => Finished
    /\ qpc = "returned" => qresult.type = "LLMResponse"
    /\ qpc = "raised" => qresult.type = "LLMProviderError"
    /\ (Finished /\ \A i \in DOMAIN outcomes : outcomes[i] = "timeout")
           => qpc = "raised" /\ qresult.type = "LLMProviderError"

C11_Witness ==
    /\ qpc = "raised" /\ max_retries = MaxRetryAttempts
    /\ Len(outcomes) = max_retries + 1
    /\ \A i \in DOMAIN outcomes : outcomes[i] = "timeout"

\* C12: once an invocation of a call has failed with an invalid-input-shaped
\* error, the call makes no further invocation and has raised
\* LLMProviderError.
C12_NoRetryOnInvalidInput ==
    \A i \in DOMAIN outcomes :
        outcomes[i] = "invalid_input" =>
            /\ i = Len(outcomes)
            /\ qpc = "raised"
            /\ qresult.type = "LLMProviderError"

(***************************************************************************)
(* Statements about the CacheManager, checked under SpecCache.             *)
(***************************************************************************)
\* A value of the given dictionary and the value get_script returned for the
\* same key: the same value, a datetime as its ISO 8601 text
SameValue(k, given, got) ==
    IF k = "created_at" THEN fromisoformat(got) = given ELSE got = given

LookupStep(fp) == cops' = cops + 1 /\ last'.op = "get" /\ last'.fp = fp

\* the artifact stored under fp is older than its ttl
Aged(fp) ==
    /\ fp \in DOMAIN files
    /\ ~json_load_raises(files[fp]) /\ ~is_expired_raises(files[fp])
    /\ now - files[fp].cached_at > ttl_seconds(files[fp])

\* C14: a get_script of an artifact older than its ttl returns None, removes
\* the file and the index entry and counts one miss and one eviction; from
\* then on the file is absent until a store_script opens it again, and a
\* get_script of an absent file returns None and counts a miss.
C14_ExpiredEvicted ==
    [][\A fp \in Keys :
          /\ (LookupStep(fp) /\ Aged(fp)) =>
                /\ last'.result = None
                /\ fp \notin DOMAIN files' /\ fp \notin DOMAIN metadata'
                /\ stats'.misses = stats.misses + 1
                /\ stats'.evictions = stats.evictions + 1
          /\ (LookupStep(fp) /\ fp \notin DOMAIN files) =>
                /\ last'.result = None
                /\ fp \notin DOMAIN files'
                /\ stats'.misses = stats.misses + 1
          /\ (fp \notin DOMAIN files /\ fp \in DOMAIN files') =>
                last'.op = "open" /\ last'.fp = fp]_vars

C14_Witness ==
    /\ last.op = "get" /\ last.path = "expired" /\ last.result = None
    /\ last.fp \notin DOMAIN files /\ last.fp \notin DOMAIN metadata
    /\ stats.misses = 1 /\ stats.evictions = 1

\* C15: after a get_script that found the artifact file unreadable (with no
\* store_script writing it at that moment) the call has returned None and the
\* entry is evicted: the file and the index entry are gone, so the entry count
\* of the stats no longer includes it.
C15_CorruptEvicted ==
    (last.op = "get" /\ last.path = "unreadable" /\ ~last.during) =>
        /\ last.result = None
        /\ last.fp \notin DOMAIN files
        /\ last.fp \notin DOMAIN metadata

\* C16: the access_count of the index entry of an artifact equals the number
\* of get_script hits on it since it was stored (checked once the engine's
\* increment_cache_hit that follows a hit has run).
C16_AccessCount ==
    \A fp \in Keys :
        (/\ stored[fp] # None
         /\ fp \in DOMAIN metadata
         /\ ~(last.op = "get" /\ ~last.counted))
            => metadata[fp].access_count = stored[fp].hits

\* can a get_script of fp return an artifact now
WouldHit(fp) ==
    /\ fp \in DOMAIN files
    /\ ~json_load_raises(files[fp]) /\ ~is_expired_raises(files[fp])
    /\ ~is_expired(files[fp], now)

\* C17: when clear_scripts(all_scripts=True) has returned, the entry count is
\* 0 and no fingerprint has an artifact that get_script would return.
C17_ClearAll ==
    (last.op = "clear" /\ last.criteria = "all") =>
        /\ total_scripts = 0
        /\ \A fp \in Keys : ~WouldHit(fp)

\* the fingerprints of the readable artifact files whose language is L
WithLanguage(L) ==
    {fp \in DOMAIN files :
        /\ ~json_load_raises(files[fp])
        /\ "language" \in DOMAIN files[fp]
        /\ files[fp].language = L}

C19_FailedStoreConsistent ==
    (last.op = "store" /\ last.result = CacheError) =>
        \/ /\ file_of(last.fp) = last.prev_file
           /\ entry_of(last.fp) = last.prev_entry
        \/ /\ last.fp \in DOMAIN files /\ last.fp \in DOMAIN metadata
           /\ ~json_load_raises(files[last.fp])

\* a complete artifact: a document with all the keys store_script stamps
Complete(r) == ~json_load_raises(r) /\ StampKeys \subseteq DOMAIN r

\* C20: a get_script that runs while a store_script of the same fingerprint
\* is between opening the file and having written it returns None or a
\* complete artifact, never a part of the document being written.
C20_NoTornRead ==
    (last.op = "get" /\ last.during) => (last.result = None \/ Complete(last.result))

C20_Witness ==
    last.op = "get" /\ last.during /\ last.path = "unreadable" /\ last.result = None

\* C37: every get_script call that returns adds one to exactly one of the
\* counters hits and misses, to hits exactly when it returns an artifact;
\* no other call of the same CacheManager changes either counter, so their
\* sum is the number of completed lookups.
C37_OneCounterPerLookup ==
    [][/\ \A fp \in Keys :
            LookupStep(fp) =>
                /\ stats'.hits + stats'.misses = stats.hits + stats.misses + 1
                /\ stats'.hits \in {stats.hits, stats.hits + 1}
                /\ stats'.hits = stats.hits + 1 <=> last'.result # None
       /\ (last'.op \notin {"get", "reopen"} \/ cops' = cops) =>
                stats'.hits = stats.hits /\ stats'.misses = stats.misses]_vars

\* a lookup of a file that cannot be read, after a hit
C37_Witness ==
    last.op = "get" /\ last.path = "unreadable" /\ stats.hits > 0 /\ stats.misses > 0

\* C39: whenever no store_script call is under way the index and the
\* artifact files correspond one to one: a fingerprint has an entry in the
\* index of the CacheManager, and in the index file, exactly when its
\* artifact file exists.
C39_IndexMatchesFiles ==
    storing.stage = "idle" =>
        /\ DOMAIN metadata = DOMAIN files
        /\ DOMAIN metadata_file = DOMAIN files

\* C40: in every state total_size_bytes of the statistics is the sum of
\* size_bytes over the entries of the index, and it is not negative.
C40_TotalSizeIsSum ==
    /\ stats.total_size_bytes = SumSizes(metadata, DOMAIN metadata)
    /\ stats.total_size_bytes >= 0

(***************************************************************************)
(* Statements about listing, checked under SpecList.                       *)
(***************************************************************************)

\* the documents of the index that a request selects, newest first
NewestFirst(index, q) ==
    LET scripts == matching(index, q)
    IN  sorted_by(scripts, [i \in DOMAIN scripts |-> scripts[i].created_at], TRUE)

\* C31: a listing with sort_by = created_at and order = desc, made through
\* the client or on the cache, returns the documents that pass the language
\* and search filters and whose file exists, ordered newest first, cut to
\* offset and limit.
C31_ListNewestFirst ==
    (/\ last.op \in {"list", "client_list"}
     /\ last.request.sort_by = "created_at" /\ last.request.sort_order = "desc") =>
        /\ last.result.raised = "none"
        /\ last.result.scripts
              = slice(NewestFirst(last.index, last.request), last.request.offset,
                      last.request.limit)

(***************************************************************************)
(* Statements about the responses and the audit events of the run          *)
(* pipeline, checked under Spec.                                           *)
(***************************************************************************)

\* C21: every RunResponse, whether built from the cache or after a
\* generation, carries an execution result exactly when the request had
\* execute set.
C21_ExecutionResultIffExecute ==
    \A r \in Runs :
        pc[r] = "responded" =>
            (resp[r].execution_result \in ExecutionResults <=> req[r].execute)

\* A hit with execute set that carries a result, next to a miss without
\* execute that carries none.
C21_Witness ==
    \E r1, r2 \in Runs :
        /\ pc[r1] = "responded" /\ resp[r1].cached /\ req[r1].execute
        /\ resp[r1].execution_result \in ExecutionResults
        /\ pc[r2] = "responded" /\ ~resp[r2].cached /\ ~req[r2].execute
        /\ resp[r2].execution_result = NoResult

\* the number of events of one type in a log
Count(log, event_type) ==
    Cardinality({i \in DOMAIN log : log[i].event_type = event_type})

\* C28: a run that generated a new artifact has emitted exactly one
\* script_generated event; a run with execute set that was answered, from
\* the cache or after a generation, has emitted exactly one script_executed
\* event; a rejected run has emitted one security_violation event for each
\* violation of the scan and no script_generated event.
C28_AuditEvents ==
    \A r \in Runs :
        /\ (pc[r] = "responded" /\ ~resp[r].cached)
              => Count(audit[r], "script_generated") = 1
        /\ (pc[r] = "responded" /\ req[r].execute)
              => Count(audit[r], "script_executed") = 1
        /\ pc[r] = "rejected"
              => /\ Count(audit[r], "security_violation") = Cardinality(err[r].violations)
                 /\ Count(audit[r], "script_generated") = 0

\* A rejected run with two violations next to a run with execute set that
\* was generated and answered.
C28_Witness ==
    \E r1, r2 \in Runs :
        /\ pc[r1] = "rejected" /\ Cardinality(err[r1].violations) = 2
        /\ Count(audit[r1], "security_violation") = 2
        /\ pc[r2] = "responded" /\ req[r2].execute /\ ~resp[r2].cached
        /\ Count(audit[r2], "script_executed") = 1
        /\ Count(audit[r2], "script_generated") = 1

\* C29: two artifacts created by distinct generations have different
\* script_id values, also when both are created within one clock second.
C29_UniqueScriptIds ==
    \A r1, r2 \in Runs :
        (r1 # r2 /\ pc[r1] = "responded" /\ pc[r2] = "responded"
            /\ ~resp[r1].cached /\ ~resp[r2].cached)
            => resp[r1].script_id # resp[r2].script_id

(***************************************************************************)
(* Statements about ASTScanner.scan, checked under SpecScan.               *)
(***************************************************************************)

\* C24: every scan result, the one returned when the scan raised included,
\* has passed true exactly when none of its violations has severity error.
C24_PassedIffNoError ==
    scanned.op = "scan" =>
        (scanned.result.passed
            <=> \A v \in scanned.result.violations : v.severity # "error")

\* the result of a scan that raised
C24_Witness ==
    /\ scanned.op = "scan" /\ scanned.result.raised /\ ~scanned.result.passed
    /\ \E v \in scanned.result.violations : v.severity = "error"

\* the built-in patterns of a language; for Python the built-ins beside the
\* generic sweep are the import and call checks on the syntax tree
language_patterns(language) ==
    CASE language = "javascript" -> js_patterns
      [] language = "bash" -> bash_patterns
      [] language = "powershell" -> ps_patterns
      [] OTHER -> {}

\* C25: for each of the four languages, when a scan under a policy passes,
\* the code matches no pattern of the language's bank, no pattern of the
\* generic sweep and no pattern of an error-severity rule of the policy.
C25_PassImpliesNoMatch ==
    (scanned.op = "scan" /\ scanned.policy # None /\ scanned.result.passed) =>
        /\ \A p \in language_patterns(scanned.language) \cup dangerous_patterns :
              ~finditer(p, scanned.code)
        /\ \A rule \in scanned.policy.rules :
              rule.severity = "error" => ~finditer(rule.pattern, scanned.code)

\* the root modules an import node imports
Roots(node) ==
    IF node.type = "Import" THEN {node.names[i][1] : i \in DOMAIN node.names}
    ELSE IF node.module # <<>> THEN {node.module[1]}
    ELSE {}

Reported(module) ==
    \E v \in scanned.result.violations :
        /\ v.rule_name = "dangerous_import" /\ v.severity = "error"
        /\ v.pattern_matched = module

\* C26: in a completed scan of Python code, every imported root module of
\* the built-in dangerous set that policy.allowed_imports does not list is
\* reported as a dangerous_import of severity error, and every imported root
\* module that policy.blocked_imports lists is reported.
C26_DangerousImports ==
    (/\ scanned.op = "scan" /\ scanned.language = "python"
     /\ scanned.code.syntax_ok /\ ~scanned.result.raised) =>
        \A node \in scanned.code.imports : \A module \in Roots(node) :
            /\ (/\ module \in dangerous_imports
                /\ ~(scanned.policy # None /\ module \in scanned.policy.allowed_imports))
                  => Reported(module)
            /\ (scanned.policy # None /\ module \in scanned.policy.blocked_imports)
                  => Reported(module)

(***************************************************************************)
(* Statements about PolicyManager.get_policy, checked under SpecPolicy.    *)
(***************************************************************************)

\* C27: get_policy returns the policy registered under the name when there
\* is one, the default policy when the name is None, and the basic
\* restrictive policy for a name that is not registered.
C27_GetPolicy ==
    [][\A policy_name \in PolicyNames :
          GetPolicy(policy_name) =>
              /\ policy_name \in DOMAIN policies => fetched'.result = policies[policy_name]
              /\ policy_name = NoPolicyName => fetched'.result = default_policy
              /\ policy_name \notin DOMAIN policies \cup {NoPolicyName}
                    => fetched'.result = basic_policy]_vars

(***************************************************************************)
(* Statements about requests with inputs, checked under SpecInputs.        *)
(***************************************************************************)

\* the type of an input value: number, string or boolean; a text that reads
\* as a number counts as a number
TypeOfValue(val) ==
    IF val.py = "bool" THEN "boolean"
    ELSE IF val.py \in {"int", "float"} \/ val.text \in NumericText THEN "number"
    ELSE "string"

\* the same number of inputs and the same types, each as often
SameTypes(a, b) ==
    /\ Len(a) = Len(b)
    /\ \A t \in {"number", "string", "boolean"} :
          Cardinality({i \in DOMAIN a : TypeOfValue(a[i]) = t})
              = Cardinality({i \in DOMAIN b : TypeOfValue(b[i]) = t})

DifferOnlyInInputValues(q1, q2) ==
    /\ q1.prompt = q2.prompt /\ q1.llm_provider = q2.llm_provider
    /\ q1.execute = q2.execute
    /\ DOMAIN q1.context = {"inputs"} /\ DOMAIN q2.context = {"inputs"}
    /\ q1.context.inputs # q2.context.inputs
    /\ SameTypes(q1.context.inputs, q2.context.inputs)

C36_RequestTTLGoverns ==
    [][\A r1, r2 \in Runs, q \in RunRequest :
          (/\ r1 # r2 /\ Generated(r1) /\ writer[FingerprintOf(r1)] = r1
           /\ generate_fingerprint(q) = FingerprintOf(r1)
           /\ Start(r2, q))
              => LET age == now - files[FingerprintOf(r1)].cached_at
                     served == pc'[r2] = "responded" /\ resp'[r2].cached
                 IN  served <=> age <= req[r1].cache_ttl]_vars

(***************************************************************************)
(* Statements about cancelled runs, failed executions and the order of the *)
(* steps of a run, checked under SpecCancel.                               *)
(***************************************************************************)
\* C32: a run that was cancelled, at an await or while the sandbox execution
\* was in progress, has cached no artifact: the artifact under its
\* fingerprint, if there is one, was not written by it.
C32_CancelledRunCachesNothing ==
    \A r \in Runs : pc[r] = "cancelled" => writer[generate_fingerprint(req[r])] # r

FailedExecution(res) == res.ran /\ ~res.success

\* The artifact that run r generated is in the cache, young enough to be
\* served under the default time to live
StillCached(r) ==
    /\ resp[r].fingerprint \in DOMAIN files
    /\ files[resp[r].fingerprint].script_id = resp[r].script_id
    /\ now - files[resp[r].fingerprint].cached_at <= DefaultTTL

\* C33: when the sandbox execution of a newly generated and scanned artifact
\* fails, the artifact is in the cache after the run, and a later run of the
\* same request, while the artifact is cached, is answered from the cache
\* with cached = true, the same script_id, and no provider call.
C33_FailedExecutionKeepsArtifact ==
    [][\A r \in Runs :
          /\ (pc[r] = "generating" /\ pc'[r] = "responded"
                  /\ FailedExecution(resp'[r].execution_result))
              => /\ resp'[r].fingerprint \in DOMAIN files'
                 /\ files'[resp'[r].fingerprint].script_id = resp'[r].script_id
                 /\ files'[resp'[r].fingerprint].code = resp'[r].code
          /\ \A r1 \in Runs \ {r} :
                (/\ pc[r] = "idle" /\ pc'[r] # "idle"
                 /\ Generated(r1) /\ FailedExecution(resp[r1].execution_result)
                 /\ StillCached(r1)
                 /\ generate_fingerprint(req'[r]) = resp[r1].fingerprint)
                => /\ pc'[r] = "responded"
                   /\ resp'[r].cached
                   /\ resp'[r].script_id = resp[r1].script_id
                   /\ provider'[r] = NoProvider
                   /\ provider_stats' = provider_stats
                   /\ health_status' = health_status]_vars

C33_Witness ==
    \E r1, r2 \in Runs :
        /\ Generated(r1) /\ FailedExecution(resp[r1].execution_result)
        /\ pc[r2] = "responded" /\ resp[r2].cached
        /\ resp[r2].script_id = resp[r1].script_id
        /\ after[r2] = r1

StepOrder == <<"probe", "process", "generate", "scan", "persist", "execute", "respond">>
Rank(step) == CHOOSE i \in DOMAIN StepOrder : StepOrder[i] = step
Has(r, step) == \E i \in DOMAIN steps[r] : steps[r][i] = step

\* C35: the steps a run has taken are in the order cache probe, prompt
\* processing, generation, scan, persist, execute, respond, each at most
\* once and beginning with the probe; a run on the miss path that has
\* started the execution has scanned and stored before, the code it
\* generated has passed the scan, and a run whose code was rejected has
\* neither stored nor executed.
C35_MissPathOrder ==
    \A r \in Runs :
        /\ \A i, j \in DOMAIN steps[r] : i < j => Rank(steps[r][i]) < Rank(steps[r][j])
        /\ steps[r] # <<>> => steps[r][1] = "probe"
        /\ (Has(r, "generate") /\ Has(r, "execute"))
               => Has(r, "scan") /\ Has(r, "persist")
        /\ Has(r, "persist") => Has(r, "scan")
        /\ Has(r, "process") => Has(r, "generate")
        /\ (Generated(r) /\ resp[r].execution_result.ran)
               => scan(resp[r].code).passed /\ Has(r, "execute")
        /\ pc[r] = "rejected" => ~Has(r, "persist") /\ ~Has(r, "execute")

C35_Witness ==
    \E r \in Runs :
        /\ steps[r] = StepOrder
        /\ Generated(r) /\ resp[r].execution_result.ran

(***************************************************************************)
(* Statements about show_script, checked under SpecShow.                   *)
(***************************************************************************)
\* an artifact with this script_id is in the cache and young enough to be
\* served
CachedUnder(id) ==
    \E fp \in DOMAIN files :
        /\ files[fp].script_id = id
        /\ now - files[fp].cached_at <= DefaultTTL

ReturnedByRun(id) == \E r \in Runs : pc[r] = "responded" /\ resp[r].script_id = id

\* C34: show_script with a script_id that a run returned finds the artifact
\* of that script_id while it is cached, and show_script answers not found
\* only for an id under which no artifact is cached.
C34_ShowFindsReturnedId ==
    [][\A id \in ShowIds :
          (cops' = cops + 1 /\ last'.op = "show" /\ last'.script_id = id)
          => /\ (ReturnedByRun(id) /\ CachedUnder(id))
                  => last'.found /\ last'.script.script_id = id
             /\ last'.raised = ScriptNotFound => ~CachedUnder(id)]_vars

(***************************************************************************)
(* Statements about the code given to the sandbox, checked under SpecExec. *)
(***************************************************************************)
\* C38: on the miss path and on the hit path the code that the sandbox is
\* given is exactly the code that was scanned.
C38_SandboxRunsScannedCode ==
    last.op = "execute" => last.sandbox = last.scanned

====
